---------------------------- MODULE Spec2Model ----------------------------
(***************************************************************************)
(* A model of SublimeAutoDocstring: the docstring style engine of          *)
(* docstring_styles.py (parse, format, merge, return/yield migration,      *)
(* style conversion, style detection) and the batch commands of            *)
(* auto_docstring.py.                                                      *)
(*                                                                         *)
(* Text is a sequence of tokens.  A token is a newline or the content of   *)
(* one line: its kind (the grammar the line matches), its indentation      *)
(* level (one level is one indentation unit of four spaces) and its        *)
(* fields.  The regular expressions of the source are modelled by what     *)
(* they match on such lines.                                               *)
(***************************************************************************)
EXTENDS Integers, Sequences, FiniteSets, TLC

(***************************************************************************)
(* Tokens                                                                  *)
(***************************************************************************)
\* "nl"   a newline character
\* "w"    a line of plain words                        Summary
\* "wc"   a line of plain words ending in a colon      Args:
\* "dash" a line of dashes                             ----
\* "item" a Google parameter line                      a (int): text
\* "bare" a Google parameter line without a colon      a (int)
\* "ni"   a Numpy name line                            a : int
\* "f"    a Sphinx field with a name                   :param a: text
\* "rf"   a Sphinx field without a name                :returns: text
\* "dir"  a Sphinx directive                           .. note:: text
Tok(k, i, n, t, d) == [k |-> k, ind |-> i, n |-> n, t |-> t, d |-> d]
\* n is the names as written ("a" or "a, b"), t the type (or the Sphinx tag)
\* and d the text of the line
NL == Tok("nl", 0, "", "", "")
W(i, d) == Tok("w", i, "", "", d)
WC(i, d) == Tok("wc", i, "", "", d)
DASH == Tok("dash", 0, "", "", "")
ITEM(i, n, t, d) == Tok("item", i, n, t, d)
BARE(i, n, t) == Tok("bare", i, n, t, "")
NI(i, n, t) == Tok("ni", i, n, t, "")
FLD(tag, name, d) == Tok("f", 0, name, tag, d)
RFLD(tag, d) == Tok("rf", 0, "", tag, d)
DIR(tag, d) == Tok("dir", 0, "", tag, d)

IsNL(tok) == tok.k = "nl"

\* the characters of a line, without its indentation
LineText(tok) ==
  LET typ == IF tok.t = "" THEN "" ELSE " (" \o tok.t \o ")"
  IN CASE tok.k = "w" -> tok.d
       [] tok.k = "wc" -> tok.d \o ":"
       [] tok.k = "dash" -> "---"
       [] tok.k = "item" -> tok.n \o typ \o ": " \o tok.d
       [] tok.k = "bare" -> tok.n \o typ
       [] tok.k = "ni" -> IF tok.t = "" THEN tok.n
                          ELSE tok.n \o " : " \o tok.t
       [] tok.k = "f" -> ":" \o tok.t \o " " \o tok.n \o ": " \o tok.d
       [] tok.k = "rf" -> ":" \o tok.t \o ": " \o tok.d
       [] tok.k = "dir" -> ".. " \o tok.t \o ":: " \o tok.d
       [] OTHER -> ""

\* the set of the elements of a sequence
Range(s) == {s[i] : i \in 1..Len(s)}

Min(S) == CHOOSE x \in S : \A y \in S : x <= y
Max(S) == CHOOSE x \in S : \A y \in S : x >= y

RECURSIVE Repeat(_, _)
Repeat(x, n) == IF n <= 0 THEN <<>> ELSE <<x>> \o Repeat(x, n - 1)

\* the elements of s that satisfy Test, in order
SelectSeqIdx(s, Test(_)) ==
  LET F[i \in 0..Len(s)] ==
        IF i = 0 THEN <<>>
        ELSE IF Test(i) THEN Append(F[i - 1], s[i]) ELSE F[i - 1]
  IN F[Len(s)]

(***************************************************************************)
(* Text helpers of docstring_styles.py                                     *)
(***************************************************************************)
\* s[:-len(s.lstrip())].count('\n'): the slice is empty when s is blank
count_leading_newlines(s) ==
  IF \A i \in 1..Len(s) : IsNL(s[i]) THEN 0
  ELSE Min({i \in 1..Len(s) : ~IsNL(s[i])}) - 1

\* s[len(s.rstrip()):].count('\n')
count_trailing_newlines(s) ==
  IF \A i \in 1..Len(s) : IsNL(s[i]) THEN Len(s)
  ELSE Len(s) - Max({i \in 1..Len(s) : ~IsNL(s[i])})

with_bounding_newlines(s, nleading, ntrailing) ==
  Repeat(NL, nleading - count_leading_newlines(s)) \o s
    \o Repeat(NL, ntrailing - count_trailing_newlines(s))

\* strip_newlines(s, ntrailing=1), the only use in the source
strip_newlines(s) ==
  IF Len(s) > 0 /\ IsNL(s[Len(s)]) THEN SubSeq(s, 1, Len(s) - 1) ELSE s

\* indices of the tokens of s that are on the first n lines
FirstLines(s, n) ==
  {i \in 1..Len(s) : Cardinality({j \in 1..(i - 1) : IsNL(s[j])}) < n}

\* the indent dedent_docstr(s, n) removes from the lines after the first n
\* (textwrap.dedent: the common margin of the non-blank lines)
DedentMargin(s, n) ==
  LET first == FirstLines(s, n)
      rest == {i \in 1..Len(s) : ~IsNL(s[i]) /\ i \notin first}
  IN IF rest = {} THEN 0 ELSE Min({s[i].ind : i \in rest})

dedent_docstr(s, n) ==
  LET first == FirstLines(s, n)
      margin == DedentMargin(s, n)
  IN [i \in 1..Len(s) |->
        IF IsNL(s[i]) THEN s[i]
        ELSE IF i \in first THEN [s[i] EXCEPT !.ind = 0]
        ELSE [s[i] EXCEPT !.ind = @ - margin]]

\* dedent_verbose(s, n) = (indent, new): the indent found and the dedented text
dedent_verbose_indent(s, n) == DedentMargin(s, n)

indent_docstr(s, indent, n) ==
  LET first == FirstLines(s, n)
  IN [i \in 1..Len(s) |->
        IF IsNL(s[i]) \/ i \in first THEN s[i]
        ELSE [s[i] EXCEPT !.ind = @ + indent]]


(***************************************************************************)
(* Parameter and the ordered mappings of a Section                         *)
(***************************************************************************)
NoTag == 0 - 1       \* tag=None
NoIndent == 0 - 1    \* no 'indent' key in Parameter.meta

Parameter(names, types, description, tag, descr_only, annotated, indent) ==
  [names |-> names, types |-> types, description |-> description,
   tag |-> tag, descr_only |-> descr_only, annotated |-> annotated,
   indent |-> indent]

\* An OrderedDict of Parameter objects: keys is the sequence of its items,
\* each a key and the index in objs of the object it refers to, so that two
\* keys can refer to one object (a block that names several parameters).
EmptyArgs == [keys |-> <<>>, objs |-> <<>>]

ArgsKeys(a) == [i \in 1..Len(a.keys) |-> a.keys[i].key]
ArgsHas(a, key) == \E i \in 1..Len(a.keys) : a.keys[i].key = key
ArgsPos(a, key) == CHOOSE i \in 1..Len(a.keys) : a.keys[i].key = key
ArgsObj(a, key) == a.keys[ArgsPos(a, key)].obj
ArgsGet(a, key) == a.objs[ArgsObj(a, key)]
\* d.values(): one element per key
ArgsValues(a) == [i \in 1..Len(a.keys) |-> a.objs[a.keys[i].obj]]

\* d[key] = the object at index obj
ArgsBind(a, key, obj) ==
  IF ArgsHas(a, key)
  THEN [a EXCEPT !.keys[ArgsPos(a, key)].obj = obj]
  ELSE [a EXCEPT !.keys = Append(@, [key |-> key, obj |-> obj])]

\* d[key] = p for a new object p
ArgsAdd(a, key, p) ==
  ArgsBind([a EXCEPT !.objs = Append(@, p)], key, Len(a.objs) + 1)

\* d.pop(key) / del d[key]
ArgsPop(a, key) ==
  [a EXCEPT !.keys = SelectSeqIdx(a.keys, LAMBDA i : a.keys[i].key # key)]

\* the same mapping without the objects no key refers to, the objects
\* numbered in the order the keys first refer to them
Canon(a) ==
  LET used == {a.keys[i].obj : i \in 1..Len(a.keys)}
      first(o) == Min({i \in 1..Len(a.keys) : a.keys[i].obj = o})
      rank(o) == Cardinality({q \in used : first(q) <= first(o)})
      old(r) == CHOOSE o \in used : rank(o) = r
  IN [keys |-> [i \in 1..Len(a.keys) |->
                  [key |-> a.keys[i].key, obj |-> rank(a.keys[i].obj)]],
      objs |-> [r \in 1..Cardinality(used) |-> a.objs[old(r)]]]

(***************************************************************************)
(* Section: aliases and registered parsers                                 *)
(***************************************************************************)
\* str.title() on the headings of the model
Title(h) ==
  CASE h \in {"args", "ARGS"} -> "Args"
    [] h \in {"parameters", "PARAMETERS"} -> "Parameters"
    [] h \in {"returns", "RETURNS"} -> "Returns"
    [] h \in {"yields", "YIELDS"} -> "Yields"
    [] h \in {"raises", "RAISES"} -> "Raises"
    [] OTHER -> h

\* str.lower() in ('return', 'returns', 'yield', 'yields')
NapoleonSection_is_return_section(heading) ==
  heading \in {"Return", "Returns", "Yield", "Yields", "return", "returns",
               "yield", "yields", "RETURNS", "YIELDS"}

NapoleonSection_ALIASES ==
  [h \in {"Args", "Arguments", "Deleted Args", "Deleted Arguments",
          "Other Args", "Other Arguments", "Keyword Args", "Return",
          "Yield", "Warnings"} |->
     CASE h \in {"Args", "Arguments"} -> "Parameters"
       [] h \in {"Deleted Args", "Deleted Arguments"} -> "Deleted Parameters"
       [] h \in {"Other Args", "Other Arguments"} -> "Other Parameters"
       [] h = "Keyword Args" -> "Keyword Arguments"
       [] h = "Return" -> "Returns"
       [] h = "Yield" -> "Yields"
       [] h = "Warnings" -> "Warning"]

SphinxSection_ALIASES ==
  [h \in {"Return", "Yield"} |-> IF h = "Return" THEN "Returns" ELSE "Yields"]

ALIASES(cls) ==
  IF cls = "sphinx" THEN SphinxSection_ALIASES ELSE NapoleonSection_ALIASES

NapoleonSection_PARSERS ==
  {"Parameters", "Other Parameters", "Deleted Parameters",
   "Keyword Arguments", "Attributes", "Deleted Attributes", "Raises",
   "No Longer Raises", "Returns", "Yields"}

SphinxSection_PARSERS ==
  {"Parameters", "Attributes", "Raises", "Example", "Returns", "Yields",
   "Warning", "See Also", "Note"}

PARSERS(cls) ==
  IF cls = "sphinx" THEN SphinxSection_PARSERS ELSE NapoleonSection_PARSERS

resolve_alias(cls, heading) ==
  IF Title(heading) \in DOMAIN ALIASES(cls)
  THEN ALIASES(cls)[Title(heading)]
  ELSE heading


(***************************************************************************)
(* Section and the Google / Numpy parsers and formatters                   *)
(***************************************************************************)
\* [n.strip() for n in names.split(',')] on the names of the model
SplitNames(n) ==
  CASE n = "a, b" -> <<"a", "b">>
    [] n = "b, a" -> <<"b", "a">>
    [] OTHER -> <<n>>

\* ", ".join(names)
RECURSIVE JoinNames(_)
JoinNames(names) ==
  IF Len(names) = 0 THEN ""
  ELSE IF Len(names) = 1 THEN names[1]
  ELSE names[1] \o ", " \o JoinNames(Tail(names))

\* the elements of a finite set of integers in ascending order
SortedSeq(S) ==
  [k \in 1..Cardinality(S) |->
     CHOOSE x \in S : Cardinality({y \in S : y < x}) = k - 1]

\* the key of a return section's entry, an int in the source
IntKey(i) == "#" \o ToString(i)

\* s.lstrip() on a text whose lines are tokens
LStripNL(s) ==
  IF \A i \in 1..Len(s) : IsNL(s[i]) THEN <<>>
  ELSE SubSeq(s, count_leading_newlines(s) + 1, Len(s))

\* class attributes section_indent and indent of the Section classes
DefaultSectionIndent(cls) == IF cls = "google" THEN 1 ELSE 0
DefaultIndent(cls) == 1

GoogleSection_finalize_param(block, tag) ==
  IF block[1].k = "item"
  THEN LET descr == IF block[1].d # ""
                    THEN <<W(0, block[1].d)>> \o Tail(block)
                    ELSE LStripNL(Tail(block))
       IN Parameter(SplitNames(block[1].n), block[1].t,
                    dedent_docstr(descr, 1), tag, FALSE, FALSE,
                    dedent_verbose_indent(descr, 1))
  ELSE Parameter(<<ToString(tag)>>, "", block, tag, TRUE, FALSE, NoIndent)

NumpySection_finalize_param(block, tag) ==
  IF block[1].k = "ni" /\ Len(block) >= 3
  THEN LET desc == SubSeq(block, 3, Len(block))
       IN Parameter(SplitNames(block[1].n), block[1].t,
                    dedent_docstr(desc, 0), tag, FALSE, FALSE,
                    dedent_verbose_indent(desc, 0))
  ELSE Parameter(<<ToString(tag)>>, "", block, tag, TRUE, FALSE, NoIndent)

\* the blocks re.findall returns: each starts at a line that is not
\* indented and runs over the newlines and indented lines after it
ParamBlocks(text) ==
  LET starts == SortedSeq({i \in 1..Len(text) :
                             ~IsNL(text[i]) /\ text[i].ind = 0})
  IN [k \in 1..Len(starts) |->
        SubSeq(text, starts[k],
               IF k < Len(starts) THEN starts[k + 1] - 1 ELSE Len(text))]

\* d[name] = the object at index obj, for each name
RECURSIVE ArgsBindAll(_, _, _)
ArgsBindAll(a, names, obj) ==
  IF names = <<>> THEN a
  ELSE ArgsBindAll(ArgsBind(a, names[1], obj), Tail(names), obj)

\* one iteration of the loop of param_parser_common: the Parameter p of
\* block k is stored in the mapping a, under the key k in a return section
\* and under each of its names elsewhere
StoreParameter(a, p, heading, k) ==
  IF NapoleonSection_is_return_section(heading)
  THEN ArgsAdd(a, IntKey(k), [p EXCEPT !.names = <<JoinNames(@)>>])
  ELSE ArgsBindAll([a EXCEPT !.objs = Append(@, p)], p.names,
                   Len(a.objs) + 1)

\* the loop of param_parser_common over the blocks of the dedented text
NapoleonBlockParams(cls, heading, blocks) ==
  LET F[k \in 0..Len(blocks)] ==
        IF k = 0 THEN EmptyArgs
        ELSE StoreParameter(F[k - 1],
                            IF cls = "google"
                            THEN GoogleSection_finalize_param(blocks[k], k - 1)
                            ELSE NumpySection_finalize_param(blocks[k], k - 1),
                            heading, k - 1)
  IN Canon(F[Len(blocks)])

NapoleonSection_param_parser_common(cls, heading, text0) ==
  NapoleonBlockParams(cls, heading, ParamBlocks(dedent_docstr(text0, 0)))

\* the concatenation of the texts piece(p) of the values of a mapping
FormatValues(a, piece(_)) ==
  LET vals == ArgsValues(a)
      F[k \in 0..Len(vals)] ==
        IF k = 0 THEN <<>> ELSE F[k - 1] \o piece(vals[k])
  IN F[Len(vals)]

ParamIndent(sec, param) ==
  IF param.indent = NoIndent THEN sec.indent ELSE param.indent

GoogleSection_param_formatter(sec) ==
  LET piece(param) ==
        IF param.descr_only
        THEN with_bounding_newlines(param.description, 0, 1)
        ELSE LET names == JoinNames(param.names)
                 desc == indent_docstr(param.description,
                                       ParamIndent(sec, param), 1)
                 p == IF param.description = <<>>
                      THEN <<BARE(0, names, param.types)>>
                      ELSE IF IsNL(desc[1])
                      THEN <<ITEM(0, names, param.types, "")>> \o desc
                      ELSE <<ITEM(0, names, param.types, LineText(desc[1]))>>
                             \o Tail(desc)
             IN with_bounding_newlines(p, 0, 1)
  IN FormatValues(sec.args, piece)

NumpySection_param_formatter(sec) ==
  LET piece(param) ==
        IF param.descr_only
        THEN with_bounding_newlines(param.description, 0, 1)
        ELSE LET p0 == <<NI(0, JoinNames(param.names), param.types), NL>>
                 p == IF param.description = <<>> THEN p0
                      ELSE p0 \o indent_docstr(param.description,
                                               ParamIndent(sec, param), 0)
             IN with_bounding_newlines(p, 0, 1)
  IN FormatValues(sec.args, piece)


(***************************************************************************)
(* SphinxSection parsers and formatters                                    *)
(***************************************************************************)
DefaultType == "${NUMBER:TYPE}"
DefaultDescription == "${NUMBER:Description}"

\* s.strip() on a text whose lines are tokens
StripNL(s) ==
  IF \A i \in 1..Len(s) : IsNL(s[i]) THEN <<>>
  ELSE SubSeq(s, count_leading_newlines(s) + 1,
              Len(s) - count_trailing_newlines(s))

\* the matches of a field regular expression: the positions of the tokens
\* of the kinds it matches, and for each the text up to the next match
FieldStarts(text, kinds) ==
  SortedSeq({i \in 1..Len(text) : text[i].k \in kinds})

FieldRest(text, starts, k) ==
  SubSeq(text, starts[k] + 1,
         IF k < Len(starts) THEN starts[k + 1] - 1 ELSE Len(text))

\* description = m.group("description") + text[end:next start]
FieldDescription(text, starts, k) ==
  (IF text[starts[k]].d = "" THEN <<>> ELSE <<W(0, text[starts[k]].d)>>)
    \o FieldRest(text, starts, k)

\* the last field of name n with tag tg, 0 when there is none: a later
\* field of a name overwrites the value of an earlier one
LastField(text, starts, n, tg) ==
  Max({0} \cup {k \in 1..Len(starts) :
                  text[starts[k]].n = n /\ text[starts[k]].t = tg})

\* the stripped description of field k, empty for k = 0
FieldValue(text, starts, k) ==
  IF k = 0 THEN <<>> ELSE StripNL(FieldDescription(text, starts, k))

\* Parameter([name], the_type, description, tag_index): typ and desc are
\* the texts found for the name, empty when there is none
SphinxParameter(n, typ, desc, default_type, tag_index) ==
  Parameter(<<n>>,
            IF typ # <<>> THEN typ[1].d ELSE default_type,
            IF desc # <<>> THEN desc ELSE <<W(0, DefaultDescription)>>,
            tag_index, FALSE, FALSE, 0)

\* the loop of __parser_common over the fields of the dedented text
SphinxFieldParams(text, main_tag, type_tag, default_type) ==
  LET starts == FieldStarts(text, {"f"})
      name(k) == text[starts[k]].n
      \* the names in the order of their first field
      order == SortedSeq({k \in 1..Len(starts) :
                            \A j \in 1..(k - 1) : name(j) # name(k)})
      typeOf(n) ==
        IF type_tag # ""
        THEN FieldValue(text, starts, LastField(text, starts, n, type_tag))
        ELSE <<>>
      descOf(n) ==
        IF main_tag # type_tag
        THEN FieldValue(text, starts, LastField(text, starts, n, main_tag))
        ELSE <<>>
      F[i \in 0..Len(order)] ==
        IF i = 0 THEN EmptyArgs
        ELSE ArgsAdd(F[i - 1], name(order[i]),
                     SphinxParameter(name(order[i]), typeOf(name(order[i])),
                                     descOf(name(order[i])), default_type,
                                     i - 1))
  IN F[Len(order)]

SphinxSection_parser_common(text0, main_tag, type_tag, default_type) ==
  SphinxFieldParams(dedent_docstr(text0, 0), main_tag, type_tag, default_type)

\* the one Parameter of a Returns or Yields section, keyed by 0
SphinxReturnParams(text, main_tag, type_tag) ==
  LET starts == FieldStarts(text, {"rf"})
      last(tg) == Max({0} \cup {k \in 1..Len(starts) : text[starts[k]].t = tg})
      the_type == FieldValue(text, starts, last(type_tag))
      description == FieldValue(text, starts, last(main_tag))
  IN ArgsAdd(EmptyArgs, IntKey(0),
             Parameter(<<IF the_type # <<>> THEN the_type[1].d
                         ELSE DefaultType>>,
                       "",
                       IF description # <<>> THEN description
                       ELSE <<W(0, DefaultDescription)>>,
                       0, FALSE, FALSE, 0))

SphinxSection_parser_common_returns(text0, main_tag, type_tag) ==
  SphinxReturnParams(dedent_docstr(text0, 0), main_tag, type_tag)

\* the loop of __parser_other over the directives of the dedented text
SphinxDirectiveParams(text, default_description) ==
  LET starts == FieldStarts(text, {"dir"})
      F[k \in 0..Len(starts)] ==
        IF k = 0 THEN EmptyArgs
        ELSE ArgsAdd(F[k - 1], IntKey(k - 1),
                     Parameter(<<"None">>, "",
                               <<W(0, IF text[starts[k]].d # ""
                                      THEN text[starts[k]].d
                                      ELSE default_description)>>,
                               k - 1, TRUE, FALSE, 0))
  IN F[Len(starts)]

\* parser_warning, parser_seealso and parser_note pass the directive's
\* name as default_description
SphinxSection_parser_other(text0, default_description) ==
  SphinxDirectiveParams(dedent_docstr(text0, 0), default_description)

\* ",".join(param.names) if len(param.names) > 1 else param.names[0]
RECURSIVE SphinxNames(_)
SphinxNames(names) ==
  IF Len(names) = 1 THEN names[1]
  ELSE names[1] \o "," \o SphinxNames(Tail(names))

\* description.strip() if description else default; "Description" is
\* replaced by the default too
SphinxDescription(param) ==
  LET d == StripNL(param.description)
  IN IF param.description = <<>> \/ d = <<W(0, "Description")>>
     THEN <<W(0, DefaultDescription)>>
     ELSE d

\* the line ":tag names: description" and what follows its first line
SphinxLine(kind, tag, names, desc) ==
  IF desc = <<>> THEN <<Tok(kind, 0, names, tag, "")>>
  ELSE <<Tok(kind, 0, names, tag, LineText(desc[1]))>> \o Tail(desc)

SphinxSection_formatter_common(sec, main_tag, type_tag, default_type) ==
  LET piece(param) ==
        LET names == SphinxNames(param.names)
            types == IF param.types = "" THEN default_type
                     ELSE IF param.types = "TYPE" THEN default_type
                     ELSE param.types
        IN with_bounding_newlines(
             SphinxLine("f", main_tag, names, SphinxDescription(param)), 0, 1)
           \o (IF type_tag = "" THEN <<>>
               ELSE <<FLD(type_tag, names, types), NL>>)
  IN FormatValues(sec.args, piece)

SphinxSection_formatter_common_returns(sec, main_tag, type_tag) ==
  LET piece(param) ==
        LET names == SphinxNames(param.names)
        IN with_bounding_newlines(
             SphinxLine("rf", main_tag, "", SphinxDescription(param)), 0, 1)
           \o <<RFLD(type_tag,
                     IF names = "TYPE" THEN DefaultType ELSE names), NL>>
  IN FormatValues(sec.args, piece)

SphinxSection_formatter_other(sec, tag) ==
  LET piece(param) ==
        LET d == SphinxDescription(param)
        IN SphinxLine("dir", tag, "", d) \o <<NL>>
  IN FormatValues(sec.args, piece)


(***************************************************************************)
(* Section objects                                                         *)
(***************************************************************************)
\* a Section: args is its mapping (args_null: self.args is None) and text
\* its _text (text_null: self._text is None)
Section(cls, heading, alias, is_formatted, args, args_null, text, text_null, section_indent) ==
  [cls |-> cls, heading |-> heading, alias |-> alias,
   is_formatted |-> is_formatted, args |-> args, args_null |-> args_null,
   text |-> text, text_null |-> text_null, section_indent |-> section_indent,
   indent |-> DefaultIndent(cls)]

\* the value None of a section mapping
NoneSec == Section("none", "", "", FALSE, EmptyArgs, TRUE, <<>>, TRUE, 0)
IsNone(sec) == sec.cls = "none"

\* the tags that the parser_* and formatter_* methods of SphinxSection pass
\* to the common parsers and formatters
SphinxMainTag(alias) ==
  CASE alias = "Parameters" -> "param"
    [] alias = "Attributes" -> "ivar"
    [] alias = "Raises" -> "raises"
    [] alias = "Example" -> "example"
    [] alias = "Returns" -> "returns"
    [] alias = "Yields" -> "yields"
    [] alias = "Warning" -> "warning"
    [] alias = "See Also" -> "seealso"
    [] alias = "Note" -> "note"
SphinxTypeTag(alias) ==
  CASE alias = "Parameters" -> "type"
    [] alias = "Attributes" -> "vartype"
    [] alias = "Returns" -> "rtype"
    [] alias = "Yields" -> "ytype"
    [] OTHER -> ""
\* default_type=None for Raises
SphinxDefaultType(alias) == IF alias = "Raises" THEN "" ELSE DefaultType

\* self.args_parser(self, val): the parser registered for the alias
args_parser(cls, alias, heading, val) ==
  IF cls # "sphinx"
  THEN NapoleonSection_param_parser_common(cls, heading, val)
  ELSE IF alias \in {"Returns", "Yields"}
  THEN SphinxSection_parser_common_returns(val, SphinxMainTag(alias),
                                           SphinxTypeTag(alias))
  ELSE IF alias \in {"Warning", "See Also", "Note"}
  THEN SphinxSection_parser_other(val, SphinxMainTag(alias))
  ELSE SphinxSection_parser_common(val, SphinxMainTag(alias),
                                   SphinxTypeTag(alias),
                                   SphinxDefaultType(alias))

\* self.args_formatter(self)
args_formatter(sec) ==
  IF sec.cls = "google" THEN GoogleSection_param_formatter(sec)
  ELSE IF sec.cls = "numpy" THEN NumpySection_param_formatter(sec)
  ELSE IF sec.alias \in {"Returns", "Yields"}
  THEN SphinxSection_formatter_common_returns(sec, SphinxMainTag(sec.alias),
                                              SphinxTypeTag(sec.alias))
  ELSE IF sec.alias \in {"Warning", "See Also", "Note"}
  THEN SphinxSection_formatter_other(sec, SphinxMainTag(sec.alias))
  ELSE SphinxSection_formatter_common(sec, SphinxMainTag(sec.alias),
                                      SphinxTypeTag(sec.alias),
                                      SphinxDefaultType(sec.alias))

\* Section.__init__ with the text setter
Section_init(cls, heading, text) ==
  IF resolve_alias(cls, heading) \in PARSERS(cls)
  THEN Section(cls, heading, resolve_alias(cls, heading), TRUE,
               args_parser(cls, resolve_alias(cls, heading), heading,
                           strip_newlines(text)),
               FALSE, <<>>, TRUE, DefaultSectionIndent(cls))
  ELSE Section(cls, heading, resolve_alias(cls, heading), FALSE, EmptyArgs,
               TRUE, dedent_docstr(strip_newlines(text), 0), FALSE,
               IF dedent_verbose_indent(strip_newlines(text), 0) > 0
               THEN dedent_verbose_indent(strip_newlines(text), 0)
               ELSE DefaultSectionIndent(cls))

\* the text property.  err: the formatter raises AttributeError, self.args
\* being None; null: the value is None, self._text being None
Section_text(sec) ==
  IF sec.is_formatted
  THEN [err |-> sec.args_null, null |-> FALSE,
        text |-> IF sec.args_null THEN <<>> ELSE args_formatter(sec)]
  ELSE [err |-> FALSE, null |-> sec.text_null, text |-> sec.text]

(***************************************************************************)
(* The section mapping of a Docstring: a sequence of [name, sec]           *)
(***************************************************************************)
SecHas(secs, name) == \E i \in 1..Len(secs) : secs[i].name = name
SecPos(secs, name) == CHOOSE i \in 1..Len(secs) : secs[i].name = name
SecGet(secs, name) == secs[SecPos(secs, name)].sec
SecSet(secs, name, sec) ==
  IF SecHas(secs, name)
  THEN [secs EXCEPT ![SecPos(secs, name)].sec = sec]
  ELSE Append(secs, [name |-> name, sec |-> sec])
SecDel(secs, name) == SelectSeqIdx(secs, LAMBDA i : secs[i].name # name)

Docstring(style, sections, trailing_newlines) ==
  [style |-> style, sections |-> sections,
   trailing_newlines |-> trailing_newlines]

\* the key get_section, pop_section and section_exists look at: the name
\* itself if it is a key, else its alias if the name is an alias
LookupKey(ds, section_name) ==
  IF SecHas(ds.sections, section_name) THEN section_name
  ELSE IF section_name \in DOMAIN ALIASES(ds.style)
          /\ SecHas(ds.sections, resolve_alias(ds.style, section_name))
  THEN resolve_alias(ds.style, section_name)
  ELSE ""

section_exists(ds, section_name) ==
  /\ LookupKey(ds, section_name) # ""
  /\ ~IsNone(SecGet(ds.sections, LookupKey(ds, section_name)))

\* raises KeyError when LookupKey is ""
get_section(ds, section_name) ==
  SecGet(ds.sections, LookupKey(ds, section_name))

\* pop_section that looks the section up and leaves it in place
pop_section_kept(ds, section_name) == ds

pop_section(ds, section_name) ==
  [ds EXCEPT !.sections = SecDel(@, LookupKey(ds, section_name))]

insert_section(ds, section_name, section) ==
  [ds EXCEPT !.sections =
     SecSet(@, section_name, [section EXCEPT !.heading = section_name])]

finalize_section(ds, heading, text) ==
  [ds EXCEPT !.sections =
     SecSet(@, resolve_alias(ds.style, heading),
            Section_init(ds.style, heading, text))]


(***************************************************************************)
(* Docstring._parse                                                        *)
(***************************************************************************)
\* the number of newline tokens that follow position i
NLRun(s, i) ==
  IF \A j \in (i + 1)..Len(s) : IsNL(s[j]) THEN Len(s) - i
  ELSE Min({j \in (i + 1)..Len(s) : ~IsNL(s[j])}) - i - 1

\* GoogleDocstring.SECTION_RE matches a line of words with a colon that is
\* not indented, and "\s*$\r?\n?" takes every newline that follows it
GoogleMatches(s) == {i \in 1..Len(s) : s[i].k = "wc" /\ s[i].ind = 0}
GoogleMatchEnd(s, i) == i + NLRun(s, i)

\* NumpyDocstring.SECTION_RE matches a line of words that is not indented,
\* newlines, a line of dashes and one newline
NumpyDashPos(s, i) == i + NLRun(s, i) + 1
NumpyMatches(s) ==
  {i \in 1..Len(s) : /\ s[i].k = "w" /\ s[i].ind = 0
                     /\ NLRun(s, i) >= 1
                     /\ NumpyDashPos(s, i) <= Len(s)
                     /\ s[NumpyDashPos(s, i)].k = "dash"
                     /\ s[NumpyDashPos(s, i)].ind = 0}
NumpyMatchEnd(s, i) ==
  IF NumpyDashPos(s, i) < Len(s) /\ IsNL(s[NumpyDashPos(s, i) + 1])
  THEN NumpyDashPos(s, i) + 1
  ELSE NumpyDashPos(s, i)

\* SphinxDocstring.SECTION_RE matches a directive or a field that is not
\* indented and has text, and every newline that follows it
SphinxMatches(s) ==
  {i \in 1..Len(s) : s[i].k \in {"dir", "f", "rf"} /\ s[i].ind = 0
                     /\ s[i].d # ""}
SphinxMatchEnd(s, i) == i + NLRun(s, i)

SECTION_RE_Matches(style, s) ==
  IF style = "google" THEN GoogleMatches(s)
  ELSE IF style = "numpy" THEN NumpyMatches(s)
  ELSE SphinxMatches(s)

SECTION_RE_End(style, s, i) ==
  IF style = "google" THEN GoogleMatchEnd(s, i)
  ELSE IF style = "numpy" THEN NumpyMatchEnd(s, i)
  ELSE SphinxMatchEnd(s, i)

\* sec_starts: the matches in order, after ("Summary" at 0) and before the
\* end of the text; a is the first token of a match and b its last
SecStarts(style, s) ==
  LET ms == SortedSeq(SECTION_RE_Matches(style, s))
  IN <<[a |-> 1, b |-> 0, name |-> "Summary"]>>
     \o [k \in 1..Len(ms) |->
           [a |-> ms[k], b |-> SECTION_RE_End(style, s, ms[k]),
            name |-> IF style = "sphinx" THEN s[ms[k]].t ELSE s[ms[k]].d]]
     \o <<[a |-> Len(s) + 1, b |-> Len(s), name |-> ""]>>

NapoleonDocstring_parse(style, template_secs, s0) ==
  LET s == dedent_docstr(s0, 1)
      st == SecStarts(style, s)
      F[k \in 0..(Len(st) - 1)] ==
        IF k = 0
        THEN Docstring(style, template_secs, count_trailing_newlines(s0))
        ELSE finalize_section(F[k - 1], st[k].name,
                              SubSeq(s, st[k].b + 1, st[k + 1].a - 1))
  IN F[Len(st) - 1]

\* the alias table of SphinxDocstring._parse
SphinxTagAlias(tag) ==
  CASE tag \in {"param", "type"} -> "Parameters"
    [] tag \in {"ivar", "vartype"} -> "Attributes"
    [] tag \in {"return", "returns", "rtype"} -> "Returns"
    [] tag \in {"yield", "yields", "ytype"} -> "Yields"
    [] tag \in {"raise", "raises"} -> "Raises"
    [] tag = "warning" -> "Warning"
    [] tag = "seealso" -> "See Also"
    [] tag = "note" -> "Note"
    [] tag \in {"example", "examples"} -> "Example"
    [] OTHER -> tag

SphinxDocstring_parse(template_secs, s0) ==
  LET s == dedent_docstr(s0, 1)
      st == SecStarts("sphinx", s)
      n == Len(st) - 1
      name(k) == SphinxTagAlias(st[k].name)
      \* sec_body: the match and the text up to the next match
      body(k) == SubSeq(s, st[k].a, st[k + 1].a - 1)
      \* sections_bodies: the bodies of one name joined, the names in the
      \* order of their first body
      firsts == SortedSeq({k \in 1..n : \A j \in 1..(k - 1) : name(j) # name(k)})
      B[k \in 0..n, nm \in {name(j) : j \in 1..n}] ==
        IF k = 0 THEN <<>>
        ELSE IF name(k) = nm THEN B[k - 1, nm] \o body(k) ELSE B[k - 1, nm]
      F[i \in 0..Len(firsts)] ==
        IF i = 0
        THEN Docstring("sphinx", template_secs, count_trailing_newlines(s0))
        ELSE finalize_section(F[i - 1], name(firsts[i]),
                              B[n, name(firsts[i])])
  IN F[Len(firsts)]

\* Docstring.__init__ on a string: self.sections is TEMPLATE.copy() or empty
Docstring_parse(style, template_secs, s0) ==
  IF style = "sphinx" THEN SphinxDocstring_parse(template_secs, s0)
  ELSE NapoleonDocstring_parse(style, template_secs, s0)

(***************************************************************************)
(* Docstring.format                                                        *)
(***************************************************************************)
\* _format_section_text
format_section_text(style, heading, body) ==
  IF style = "google" THEN <<WC(0, heading), NL>> \o body
  ELSE IF style = "numpy" THEN <<W(0, heading), NL, DASH, NL>> \o body
  ELSE body

HasText(s) == \E i \in 1..Len(s) : ~IsNL(s[i])

\* the summary part of format
FormatSummary(ds) ==
  IF section_exists(ds, "Summary")
     /\ HasText(Section_text(get_section(ds, "Summary")).text)
  THEN with_bounding_newlines(Section_text(get_section(ds, "Summary")).text,
                              0, 1)
  ELSE <<>>

\* the sections the loop of format emits: Napoleon skips the first item of
\* the mapping and the None values, Sphinx the key "Summary", the None
\* values and the sections whose text is None
FormatLoopItems(ds) ==
  SelectSeqIdx(ds.sections,
    LAMBDA i :
      /\ ~IsNone(ds.sections[i].sec)
      /\ IF ds.style = "sphinx"
         THEN /\ ds.sections[i].name # "Summary"
              /\ ~Section_text(ds.sections[i].sec).null
         ELSE i > 1)

\* format raises: a section's text is None (Napoleon), or a formatter
\* finds self.args None
FormatRaises(ds) ==
  \/ /\ section_exists(ds, "Summary")
     /\ LET t == Section_text(get_section(ds, "Summary"))
        IN t.err \/ t.null
  \/ \E i \in 1..Len(ds.sections) :
       /\ ~IsNone(ds.sections[i].sec)
       /\ IF ds.style = "sphinx" THEN ds.sections[i].name # "Summary"
          ELSE i > 1
       /\ LET t == Section_text(ds.sections[i].sec)
          IN t.err \/ (ds.style # "sphinx" /\ t.null)

Docstring_format(ds, top_indent) ==
  LET items == FormatLoopItems(ds)
      piece(k) ==
        LET section == items[k].sec
            sec_body == indent_docstr(Section_text(section).text,
                                      section.section_indent, 0)
        IN with_bounding_newlines(
             format_section_text(ds.style, section.heading, sec_body), 1, 1)
      F[k \in 0..Len(items)] ==
        IF k = 0 THEN FormatSummary(ds) ELSE F[k - 1] \o piece(k)
      s == F[Len(items)]
      s2 == IF ds.trailing_newlines > 0
            THEN with_bounding_newlines(s, 0, ds.trailing_newlines)
            ELSE s
  IN indent_docstr(s2, top_indent, 1)

(***************************************************************************)
(* NapoleonDocstring._update_section                                       *)
(***************************************************************************)
\* str.lower on the names of the model
Lower(n) ==
  CASE n = "A" -> "a" [] n = "B" -> "b" [] n = "C" -> "c"
    [] n = "E" -> "e" [] n = "F" -> "f" [] OTHER -> n

\* the order of the lower-case names of the model
Alphabet == <<"a", "b", "c", "d", "e", "f">>
AlphaRank(n) ==
  IF \E i \in 1..Len(Alphabet) : Alphabet[i] = Lower(n)
  THEN CHOOSE i \in 1..Len(Alphabet) : Alphabet[i] = Lower(n)
  ELSE Len(Alphabet) + 1

\* the fresh parameters in the order of sorted(keys, key=str.lower): a
\* stable sort
SortedParams(params) ==
  LET before(i, j) ==
        \/ AlphaRank(params[i].names[1]) < AlphaRank(params[j].names[1])
        \/ /\ AlphaRank(params[i].names[1]) = AlphaRank(params[j].names[1])
           /\ i < j
      pos(i) == 1 + Cardinality({j \in 1..Len(params) : before(j, i)})
  IN [k \in 1..Len(params) |->
        params[CHOOSE i \in 1..Len(params) : pos(i) = k]]

KHas(keys, key) == ArgsHas([keys |-> keys], key)
KObj(keys, key) == ArgsObj([keys |-> keys], key)
KBind(keys, key, obj) == ArgsBind([keys |-> keys], key, obj).keys
KPop(keys, key) == ArgsPop([keys |-> keys], key).keys

\* the lookup of a fresh parameter in the sibling sections (the inner for
\* loop): every sibling is visited; a sibling that has the name takes the
\* annotated type and the parameter becomes None
OtherStep(st, j, name) ==
  LET sec == get_section(st.ds, st.others[j])
      key == LookupKey(st.ds, st.others[j])
  IN IF st.err # "" THEN st
     ELSE IF sec.args_null THEN [st EXCEPT !.err = "TypeError"]
     ELSE IF ~ArgsHas(sec.args, name) THEN st
     ELSE IF st.none THEN [st EXCEPT !.err = "AttributeError"]
     ELSE [st EXCEPT
             !.none = TRUE,
             !.ds.sections =
               IF st.param.annotated
               THEN SecSet(@, key,
                      [sec EXCEPT !.args.objs[ArgsObj(sec.args, name)].types =
                                    st.param.types])
               ELSE @]

OtherLoop(ds, others, param) ==
  LET F[j \in 0..Len(others)] ==
        IF j = 0 THEN [ds |-> ds, others |-> others, param |-> param,
                       none |-> FALSE, err |-> ""]
        ELSE OtherStep(F[j - 1], j, param.names[1])
  IN F[Len(others)]

\* the fresh parameter is not in current_dict; r is what the lookup in the
\* sibling sections gave
NewParameter(st, r, def_param) ==
  IF r.err # "" THEN [st EXCEPT !.ds = r.ds, !.err = r.err]
  ELSE IF r.none THEN [st EXCEPT !.ds = r.ds]
  ELSE [st EXCEPT
          !.objs = Append(@, def_param),
          !.new = KBind(@, def_param.names[1], Len(st.objs) + 1)]

\* the fresh parameter is in current_dict, at the object o
OldParameter(st, o, def_param) ==
  IF st.objs[o].tag \in st.tags_seen /\ def_param.annotated
  THEN [st EXCEPT !.cur = KPop(@, def_param.names[1]),
                  !.err = "AttributeError"]
  ELSE [st EXCEPT
          !.cur = KPop(@, def_param.names[1]),
          !.tags_seen = @ \cup {st.objs[o].tag},
          !.objs[o].types =
            IF def_param.annotated THEN def_param.types ELSE @,
          !.new = IF st.objs[o].tag \in st.tags_seen THEN @
                  ELSE KBind(@, def_param.names[1], o)]

\* one iteration of "for name, param in params.items()"
\* st: ds, the objects objs of the section, the keys cur of current_dict
\* and new of the new mapping, tags_seen and the exception raised
UpdateStep(st, def_param) ==
  IF st.err # "" THEN st
  ELSE IF KHas(st.cur, def_param.names[1])
  THEN OldParameter(st, KObj(st.cur, def_param.names[1]), def_param)
  ELSE NewParameter(st, OtherLoop(st.ds, st.others, def_param), def_param)

\* "for name, param in params.items()"
UpdateLoop(st0, params) ==
  LET F[k \in 0..Len(params)] ==
        IF k = 0 THEN st0 ELSE UpdateStep(F[k - 1], params[k])
  IN F[Len(params)]

\* "for key, param in current_dict.items(): if param.descr_only:
\* new[key] = current_dict.pop(key)".  On Python 3 (build "c") items() is a
\* view and the OrderedDict raises RuntimeError at the step after a pop; on
\* Python 2 (build "py", the branch "not PY3k") items() is a list and the
\* loop goes on.
DescrOnlyLoop(st, build) ==
  LET n == Len(st.cur)
      isd(i) == st.objs[st.cur[i].obj].descr_only
      ds == {i \in 1..n : isd(i)}
      moved == IF ds = {} THEN {}
               ELSE IF build = "c" THEN {Min(ds)} ELSE ds
      F[i \in 0..n] ==
        IF i = 0 THEN st.new
        ELSE IF i \in moved THEN KBind(F[i - 1], st.cur[i].key, st.cur[i].obj)
        ELSE F[i - 1]
  IN IF st.err # "" THEN st
     ELSE [st EXCEPT
             !.new = F[n],
             !.cur = SelectSeqIdx(st.cur, LAMBDA i : i \notin moved),
             !.err = IF build = "c" /\ ds # {} /\ Min(ds) < n
                     THEN "RuntimeError" ELSE ""]

\* one iteration of "for key, val in current_dict.items()" of the
\* relocation; dt is deleted_tags: a mapping from a tag to the key in the
\* shadow section of the entry made for it
RelocateStep(st, i) ==
  LET key == st.cur[i].key
      o == st.cur[i].obj
      val == st.objs[o]
      names == SelectSeqIdx(val.names,
                 LAMBDA k : \/ val.names[k] # key
                            \/ \E j \in 1..(k - 1) : val.names[j] = key)
      dkey == LookupKey(st.ds, st.del_sec_name)
      deled == SecGet(st.ds.sections, dkey)
  IN IF st.err # "" THEN st
     ELSE IF \A k \in 1..Len(val.names) : val.names[k] # key
     THEN [st EXCEPT !.err = "ValueError"]
     ELSE IF val.tag \in DOMAIN st.dt
     THEN LET d == ArgsObj(deled.args, st.dt[val.tag])
          IN [st EXCEPT
                !.objs[o].names = names,
                !.ds.sections =
                  SecSet(@, dkey,
                    [deled EXCEPT !.args.objs[d].names = Append(@, key)])]
     ELSE [st EXCEPT
             !.objs[o].names = names,
             !.dt = [t \in DOMAIN st.dt \cup {val.tag} |->
                       IF t = val.tag THEN key ELSE st.dt[t]],
             !.ds.sections =
               SecSet(@, dkey,
                 [deled EXCEPT !.args =
                    ArgsAdd(@, key,
                      Parameter(<<key>>, val.types, val.description, NoTag,
                                FALSE, FALSE, NoIndent))])]

\* "for key, val in current_dict.items()" of the relocation
RelocateLoop(st) ==
  LET F[i \in 0..Len(st.cur)] ==
        IF i = 0 THEN st ELSE RelocateStep(F[i - 1], i)
  IN F[Len(st.cur)]

Relocate(st0) ==
  IF st0.err # "" \/ Len(st0.cur) = 0 THEN st0
  ELSE RelocateLoop(
         IF section_exists(st0.ds,
                           resolve_alias(st0.ds.style, st0.del_sec_name))
         THEN st0
         ELSE [st0 EXCEPT
                 !.ds = finalize_section(st0.ds, st0.del_sec_name, <<>>)])

\* the state the loops of _update_section start from: sec is the section to
\* update, others the sibling sections that exist
UpdateState(ds, sec, others, del_sec_name) ==
  [ds |-> ds, others |-> others, objs |-> sec.args.objs,
   cur |-> sec.args.keys, new |-> <<>>, tags_seen |-> {},
   del_sec_name |-> del_sec_name, dt |-> [t \in {} |-> ""], err |-> ""]

\* del current_dict['']
DelEmptyKey(st) == IF st.err = "" THEN [st EXCEPT !.cur = KPop(@, "")] ELSE st

\* the end of _update_section without the test of len(new): the new mapping
\* is stored even when it is empty
NapoleonStore_empty_kept(st, sec_name) ==
  LET key == LookupKey(st.ds, sec_name)
      cursec == SecGet(st.ds.sections, key)
  IN IF st.err # ""
     THEN [ds |-> [st.ds EXCEPT !.sections =
                     SecSet(@, key,
                       [cursec EXCEPT !.args =
                          Canon([keys |-> st.cur, objs |-> st.objs])])],
           err |-> st.err]
     ELSE [ds |-> [st.ds EXCEPT !.sections =
                     SecSet(@, sec_name,
                       [cursec EXCEPT !.args =
                          Canon([keys |-> st.new, objs |-> st.objs])])],
           err |-> ""]

\* the end of _update_section: the new mapping is stored, or the section set
\* to None when nothing is left.  After an exception the section holds
\* what the loops left in current_dict.
NapoleonStore(st, sec_name) ==
  LET key == LookupKey(st.ds, sec_name)
      cursec == SecGet(st.ds.sections, key)
  IN IF st.err # ""
     THEN [ds |-> [st.ds EXCEPT !.sections =
                     SecSet(@, key,
                       [cursec EXCEPT !.args =
                          Canon([keys |-> st.cur, objs |-> st.objs])])],
           err |-> st.err]
     ELSE IF Len(st.new) = 0
     THEN [ds |-> [st.ds EXCEPT !.sections = SecSet(@, sec_name, NoneSec)],
           err |-> ""]
     ELSE [ds |-> [st.ds EXCEPT !.sections =
                     SecSet(@, sec_name,
                       [cursec EXCEPT !.args =
                          Canon([keys |-> st.new, objs |-> st.objs])])],
           err |-> ""]

\* _update_section from "current_dict = self.get_section(sec_name).args"
\* on: sec is that section
NapoleonUpdateArgs(ds, sec, params, sec_name, del_sec_name, others, build) ==
  IF sec.args_null
  THEN [ds |-> ds, err |-> IF Len(params) = 0 THEN "AttributeError"
                           ELSE "TypeError"]
  ELSE NapoleonStore(
         Relocate(DelEmptyKey(DescrOnlyLoop(
           UpdateLoop(UpdateState(ds, sec, others, del_sec_name), params),
           build))),
         sec_name)

\* _update_section once the section exists
NapoleonUpdateExisting(ds, params, sec_name, del_prefix, other_sections, build) ==
  NapoleonUpdateArgs(ds, get_section(ds, sec_name), params, sec_name,
                     del_prefix \o sec_name,
                     SelectSeqIdx(other_sections,
                       LAMBDA i : section_exists(ds, other_sections[i])),
                     build)

\* _update_section: the result is the docstring and the exception raised
\* ("" when none).  build is the interpreter: "c" (Python 3) or "py"
NapoleonDocstring_update_section(ds0, params0, sec_name, sec_alias, del_prefix, alpha_order, other_sections, build) ==
  IF ~section_exists(ds0, sec_name) /\ Len(params0) = 0
  THEN [ds |-> ds0, err |-> ""]
  ELSE NapoleonUpdateExisting(
         IF section_exists(ds0, sec_name) THEN ds0
         ELSE finalize_section(ds0, sec_alias, <<>>),
         IF alpha_order THEN SortedParams(params0) ELSE params0,
         sec_name, del_prefix, other_sections, build)

PREFERRED_PARAMS_ALIAS(style) == IF style = "google" THEN "Args" ELSE "Parameters"

NapoleonDocstring_update_parameters(ds, params, build) ==
  NapoleonDocstring_update_section(ds, params, "Parameters",
    PREFERRED_PARAMS_ALIAS(ds.style), "Deleted ", FALSE,
    <<"Other Parameters", "Keyword Parameters">>, build)

NapoleonDocstring_update_attributes(ds, attribs, alpha_order, build) ==
  NapoleonDocstring_update_section(ds, attribs, "Attributes", "Attributes",
    "Deleted ", alpha_order, <<>>, build)

NapoleonDocstring_update_exceptions(ds, attribs, alpha_order, build) ==
  NapoleonDocstring_update_section(ds, attribs, "Raises", "Raises",
    "No Longer ", alpha_order, <<>>, build)

(***************************************************************************)
(* SphinxDocstring._update_section                                         *)
(***************************************************************************)
\* the end of _update_section: the new mapping is stored, or the section set
\* to None when nothing is left.  After an exception the section holds
\* what the loop left in current_dict.
SphinxStore(ds, sec, st, sec_name) ==
  IF st.err # ""
  THEN [ds |-> [ds EXCEPT !.sections =
                  SecSet(@, LookupKey(ds, sec_name),
                    [sec EXCEPT !.args =
                       Canon([keys |-> st.cur, objs |-> st.objs])])],
        err |-> st.err]
  ELSE IF Len(st.new) = 0
  THEN [ds |-> [ds EXCEPT !.sections = SecSet(@, sec_name, NoneSec)],
        err |-> ""]
  ELSE [ds |-> [ds EXCEPT !.sections =
                  SecSet(@, sec_name,
                    [sec EXCEPT !.args =
                       Canon([keys |-> st.new, objs |-> st.objs])])],
        err |-> ""]

\* _update_section from "current_dict = self.get_section(sec_name).args"
\* on: sec is that section
SphinxUpdateArgs(ds, sec, params, sec_name) ==
  IF sec.args_null THEN [ds |-> ds, err |-> "TypeError"]
  ELSE SphinxStore(ds, sec,
                   UpdateLoop(UpdateState(ds, sec, <<>>, ""), params),
                   sec_name)

\* _update_section once the section exists
SphinxUpdateExisting(ds, params, sec_name) ==
  SphinxUpdateArgs(ds, get_section(ds, sec_name), params, sec_name)

SphinxDocstring_update_section(ds0, params0, sec_name, alpha_order) ==
  IF Len(params0) = 0
  THEN [ds |-> IF section_exists(ds0, sec_name)
               THEN pop_section(ds0, sec_name) ELSE ds0,
        err |-> ""]
  ELSE SphinxUpdateExisting(
         IF section_exists(ds0, sec_name) THEN ds0
         ELSE finalize_section(ds0, sec_name, <<>>),
         IF alpha_order THEN SortedParams(params0) ELSE params0,
         sec_name)


(***************************************************************************)
(* update_return_type                                                      *)
(***************************************************************************)
\* the text of a one-line string
Line(str) == IF str = "" THEN <<>> ELSE <<W(0, str)>>

\* the last part of update_return_type, the same in both classes
UpdateReturnEntry(ds, sec_name, ret_name, ret_type, default_description) ==
  IF ~section_exists(ds, sec_name) THEN ds
  ELSE
    LET key == LookupKey(ds, sec_name)
        sec == SecGet(ds.sections, key)
        p0 == sec.args.objs[sec.args.keys[1].obj]
        o == sec.args.keys[1].obj
        only(name, types) ==
          ArgsAdd(EmptyArgs, name,
                  Parameter(<<name>>, types, Line(default_description),
                            NoTag, FALSE, FALSE, NoIndent))
    IN IF ~sec.args_null /\ Len(sec.args.keys) > 0 /\ ret_type # ""
       THEN IF p0.descr_only
            THEN [ds EXCEPT !.sections = SecSet(@, key,
                    [sec EXCEPT !.args.objs[o].description = Line(ret_type)])]
            ELSE IF p0.types # ""
            THEN [ds EXCEPT !.sections = SecSet(@, key,
                    [sec EXCEPT !.args.objs[o].types = ret_type])]
            ELSE IF Len(p0.names) > 0
            THEN [ds EXCEPT !.sections = SecSet(@, key,
                    [sec EXCEPT !.args.objs[o].names = <<ret_type>>])]
            ELSE ds
       ELSE IF ret_name # ""
       THEN [ds EXCEPT !.sections = SecSet(@, key,
               [sec EXCEPT !.args = only(ret_name, ret_type),
                           !.args_null = FALSE])]
       ELSE IF ret_type # ""
       THEN [ds EXCEPT !.sections = SecSet(@, key,
               [sec EXCEPT !.args = only(ret_type, ""),
                           !.args_null = FALSE])]
       ELSE ds

\* the section of the other keyword, if one exists: the first of
\* ("Yields", "Returns") that exists
OldReturnSection(ds) ==
  IF section_exists(ds, "Yields") THEN "Yields"
  ELSE IF section_exists(ds, "Returns") THEN "Returns"
  ELSE ""

\* "see if a section exists from another keyword": std is that section, ""
\* when there is none; it is popped and inserted under sec_name
NapoleonMoveReturn(ds, sec_name, std) ==
  IF ~section_exists(ds, sec_name) /\ std # ""
  THEN insert_section(pop_section(ds, std), sec_name, get_section(ds, std))
  ELSE ds

\* the section is made when there is none and a name or a type is given
NapoleonMakeReturn(ds, sec_name, ret_name, ret_type) ==
  IF ~section_exists(ds, sec_name) /\ (ret_name # "" \/ ret_type # "")
  THEN finalize_section(ds, sec_name, <<>>)
  ELSE ds

NapoleonDocstring_update_return_type(ds0, ret_name, ret_type, default_description, keyword) ==
  LET sec_name == IF keyword = "yield" THEN "Yields" ELSE "Returns"
  IN UpdateReturnEntry(
       NapoleonMakeReturn(
         NapoleonMoveReturn(ds0, sec_name, OldReturnSection(ds0)),
         sec_name, ret_name, ret_type),
       sec_name, ret_name, ret_type, default_description)

RECURSIVE PopAll(_, _)
PopAll(ds, names) ==
  IF names = <<>> THEN ds
  ELSE PopAll(IF section_exists(ds, names[1])
              THEN pop_section(ds, names[1]) ELSE ds, Tail(names))

\* new_sec.args = old_sec.args; self.insert_section(sec_name, new_sec):
\* made is the docstring after finalize_section(sec_name, "")
SphinxInsertMoved(made, sec_name, old_sec) ==
  insert_section(made, sec_name,
                 [get_section(made, sec_name) EXCEPT
                    !.args = old_sec.args, !.args_null = old_sec.args_null])

\* "see if a section exists from another keyword": std is that section, ""
\* when there is none; it is popped, and a new section sec_name is given
\* its args
SphinxMoveReturn(ds, sec_name, std) ==
  IF ~section_exists(ds, sec_name) /\ std # ""
  THEN SphinxInsertMoved(finalize_section(pop_section(ds, std), sec_name, <<>>),
                         sec_name, get_section(ds, std))
  ELSE ds

\* the section is made when there is none
SphinxMakeReturn(ds, sec_name) ==
  IF ~section_exists(ds, sec_name) THEN finalize_section(ds, sec_name, <<>>)
  ELSE ds

SphinxDocstring_update_return_type(ds0, ret_name, ret_type, default_description, keyword) ==
  IF keyword \notin {"return", "returns", "Return", "Returns",
                     "yield", "yields", "Yield", "Yields"}
  THEN PopAll(ds0, <<"Yields", "Returns">>)
  ELSE
    LET sec_name == IF keyword \in {"return", "returns", "Return", "Returns"}
                    THEN "Returns" ELSE "Yields"
    IN UpdateReturnEntry(
         SphinxMakeReturn(
           SphinxMoveReturn(ds0, sec_name, OldReturnSection(ds0)), sec_name),
         sec_name, ret_name, ret_type, default_description)


(***************************************************************************)
(* The update operations of a Docstring of either class                    *)
(***************************************************************************)
update_parameters(ds, params, build) ==
  IF ds.style = "sphinx"
  THEN SphinxDocstring_update_section(ds, params, "Parameters", FALSE)
  ELSE NapoleonDocstring_update_parameters(ds, params, build)

update_attributes(ds, attribs, alpha_order, build) ==
  IF ds.style = "sphinx"
  THEN SphinxDocstring_update_section(ds, attribs, "Attributes", alpha_order)
  ELSE NapoleonDocstring_update_attributes(ds, attribs, alpha_order, build)

update_exceptions(ds, attribs, alpha_order, build) ==
  IF ds.style = "sphinx"
  THEN SphinxDocstring_update_section(ds, attribs, "Raises", alpha_order)
  ELSE NapoleonDocstring_update_exceptions(ds, attribs, alpha_order, build)

update_return_type(ds, ret_name, ret_type, default_description, keyword) ==
  IF ds.style = "sphinx"
  THEN SphinxDocstring_update_return_type(ds, ret_name, ret_type,
                                          default_description, keyword)
  ELSE NapoleonDocstring_update_return_type(ds, ret_name, ret_type,
                                            default_description, keyword)

(***************************************************************************)
(* Style conversion: Docstring.__init__ on a Docstring                     *)
(***************************************************************************)
\* Section.from_section: a section of class cls made from the alias of sec,
\* then given the _text and the args of sec
from_section(cls, sec) ==
  [Section_init(cls, sec.alias, <<>>) EXCEPT
     !.text = sec.text, !.text_null = sec.text_null,
     !.args = sec.args, !.args_null = sec.args_null]

\* arg.meta['indent'] = section.indent for every value of the mapping
SetMetaIndent(sec) ==
  [sec EXCEPT !.args.objs =
     [i \in 1..Len(sec.args.objs) |->
        [sec.args.objs[i] EXCEPT !.indent = sec.indent]]]

\* the loop over docstr.sections.items(): a section is replaced by its
\* conversion and a None value is deleted.  Deleting makes the OrderedDict
\* of Python 3 (build "c") raise RuntimeError at the next step; on Python 2
\* (build "py") items() is a list and the loop goes on.
ConvertLoop(secs, cls, build) ==
  LET n == Len(secs)
      nones == {i \in 1..n : IsNone(secs[i].sec)}
      stop == IF build = "c" /\ nones # {} THEN Min(nones) ELSE n
      conv == [i \in 1..n |->
                 IF i <= stop /\ ~IsNone(secs[i].sec)
                 THEN [secs[i] EXCEPT !.sec = from_section(cls, secs[i].sec)]
                 ELSE secs[i]]
  IN [sections |-> SelectSeqIdx(conv,
                     LAMBDA i : ~(i <= stop /\ IsNone(secs[i].sec))),
      err |-> IF build = "c" /\ nones # {} /\ Min(nones) < n
              THEN "RuntimeError" ELSE ""]

\* the fixup of "Parameters": its heading is the preferred alias of the new
\* style and its entries get the indent of the section
ConvertParameters(d, style) ==
  IF SecHas(d.sections, "Parameters")
  THEN [d EXCEPT !.sections =
          SecSet(@, "Parameters",
            SetMetaIndent(
              [get_section(d, "Parameters") EXCEPT
                 !.heading = PREFERRED_PARAMS_ALIAS(style)]))]
  ELSE d

\* the fixup of "Returns" and "Yields"
ConvertReturns(d, name) ==
  IF SecHas(d.sections, name)
  THEN [d EXCEPT !.sections =
          SecSet(@, name, SetMetaIndent(get_section(d, name)))]
  ELSE d

\* r is what the loop over the sections gave
Converted(ds, r, style) ==
  IF r.err # ""
  THEN [ds |-> [ds EXCEPT !.sections = r.sections], err |-> r.err]
  ELSE [ds |-> ConvertReturns(
                 ConvertReturns(
                   ConvertParameters(
                     [ds EXCEPT !.style = style, !.sections = r.sections],
                     style),
                   "Returns"),
                 "Yields"),
        err |-> ""]

Convert(ds, style, build) ==
  IF ds.style = style THEN [ds |-> ds, err |-> ""]
  ELSE Converted(ds, ConvertLoop(ds.sections, style, build), style)


(***************************************************************************)
(* detect_style and make_docstring_obj                                     *)
(***************************************************************************)
\* c.detect_style(docstr): re.search(cls.SECTION_RE, docstr, re.MULTILINE)
Docstring_detect_style(style, docstr) == SECTION_RE_Matches(style, docstr) # {}

\* the registry with Google put first
STYLE_LOOKUP_google_first == <<"google", "numpy", "sphinx">>

\* STYLE_LOOKUP, an OrderedDict: its keys in order
STYLE_LOOKUP == <<"numpy", "google", "sphinx">>

\* the first class of STYLE_LOOKUP.values() that detects the text, "" for
\* None
FirstDetected(order, docstr) ==
  LET hits == {i \in 1..Len(order) : Docstring_detect_style(order[i], docstr)}
  IN IF hits = {} THEN "" ELSE order[Min(hits)]

detect_style(docstr) == FirstDetected(STYLE_LOOKUP, dedent_docstr(docstr, 1))

\* Docstring.TEMPLATE and its overrides: the mapping template_order starts
\* from, every value None
TEMPLATE(style) ==
  LET names == IF style = "sphinx"
               THEN <<"Summary", "Parameters", "Returns", "Yields", "Raises",
                      "Warning", "See Also", "Note", "Example">>
               ELSE <<"Summary", "Parameters", "Keyword Arguments", "Returns",
                      "Yields", "Other Parameters", "Deleted Parameters",
                      "Attributes", "Deleted Attributes", "Methods", "Raises",
                      "No Longer Raises", "Warns", "See Also", "Warning",
                      "Note", "Notes", "References", "Example", "Examples">>
  IN [i \in 1..Len(names) |-> [name |-> names[i], sec |-> NoneSec]]

make_docstring_obj(docstr, default, template_order) ==
  LET typ == IF detect_style(docstr) = "" THEN default
             ELSE detect_style(docstr)
  IN Docstring_parse(typ, IF template_order THEN TEMPLATE(typ) ELSE <<>>,
                     docstr)

(***************************************************************************)
(* The existing docstrings the commands are run on                         *)
(***************************************************************************)
Styles == {"google", "numpy", "sphinx"}

\* the deepest indentation of a docstring in the buffer
MaxIndent == 1

SummaryText == <<W(0, "Summary"), NL>>
Prose == <<W(1, "some text"), NL>>
Prose2 == <<W(1, "more text"), NL>>

GSec(h, body) == <<NL, WC(0, h), NL>> \o body
GA == <<ITEM(1, "a", "int", "x"), NL>>
GB == <<ITEM(1, "b", "str", "y"), NL>>
GoogleParamSecs ==
  {GSec("Args", b) : b \in {GA, GA \o GB, <<ITEM(1, "a, b", "int", "x"), NL>>,
                            GA \o Prose \o GB,
                            GA \o Prose \o GB \o Prose2,
                            Prose \o GA \o Prose2}}
  \cup {GSec("args", GA)}
GoogleOtherSecs ==
  {GSec("Returns", <<ITEM(1, "int", "", "r"), NL>>),
   GSec("Yields", <<ITEM(1, "int", "", "r"), NL>>),
   GSec("Returns", Prose),
   GSec("Raises", <<ITEM(1, "E", "", "x"), NL>>),
   GSec("Attributes", GB),
   GSec("Note", <<W(1, "some text"), NL>>),
   GSec("Parameters", GB),
   GSec("Deleted Parameters", GB)}

NSec(h, body) == <<NL, W(0, h), NL, DASH, NL>> \o body
NA == <<NI(0, "a", "int"), NL, W(1, "x"), NL>>
NB == <<NI(0, "b", "str"), NL, W(1, "y"), NL>>
NProse == <<W(0, "some text"), NL>>
NProse2 == <<W(0, "more text"), NL>>
NumpyParamSecs ==
  {NSec("Parameters", b) :
     b \in {NA, NA \o NB, <<NI(0, "a, b", "int"), NL, W(1, "x"), NL>>,
            NA \o NProse \o NB, NA \o NProse \o NB \o NProse2,
            NProse \o NA \o NProse2}}
  \cup {NSec("Args", NA)}
NumpyOtherSecs ==
  {NSec("Returns", <<NI(0, "int", ""), NL, W(1, "r"), NL>>),
   NSec("Yields", <<NI(0, "int", ""), NL, W(1, "r"), NL>>),
   NSec("Returns", NProse),
   NSec("Raises", <<NI(0, "E", ""), NL, W(1, "x"), NL>>),
   NSec("Attributes", NB),
   NSec("Note", NProse),
   NSec("Arguments", NB),
   NSec("Deleted Parameters", NB)}

SA == <<FLD("param", "a", "x"), NL, FLD("type", "a", "int"), NL>>
SB == <<FLD("param", "b", "y"), NL, FLD("type", "b", "str"), NL>>
SphinxParamSecs ==
  {<<NL>> \o b : b \in {SA, SA \o SB, <<FLD("param", "a", "x"), NL>>,
                        <<FLD("param", "a", "x"), NL, W(1, "more text"), NL>>,
                        <<FLD("arg", "a", "x"), NL>>}}
SphinxOtherSecs ==
  {<<NL, RFLD("returns", "r"), NL, RFLD("rtype", "int"), NL>>,
   <<NL, RFLD("yields", "r"), NL>>,
   <<NL, FLD("raises", "E", "x"), NL>>,
   <<NL, FLD("var", "b", "y"), NL>>,
   <<NL, DIR("note", "some text"), NL>>,
   <<NL, FLD("param", "b", "y"), NL, NL, FLD("param", "a", "x"), NL>>}

\* a docstring is a summary and a section of parameters, or a summary, the
\* simplest section of parameters or none, and one other section or none
Compose(params, simplest, others) ==
  {SummaryText \o p : p \in params}
  \cup {SummaryText \o p \o o : p \in {<<>>, simplest}, o \in others \cup {<<>>}}

\* docstrings whose summary holds a line that another style takes for a
\* heading
MixedTexts ==
  {<<W(0, "Summary"), NL, WC(0, "Note"), NL>> \o NSec("Parameters", NA),
   <<W(0, "Summary"), NL, DIR("note", "some text"), NL>>
     \o NSec("Parameters", NA),
   <<W(0, "Summary"), NL, DIR("note", "some text"), NL>> \o GSec("Args", GA),
   <<W(0, "Summary"), NL, WC(0, "Note"), NL, DIR("note", "some text"), NL>>
     \o NSec("Parameters", NA)}

ParamTexts ==
  {SummaryText \o p :
     p \in GoogleParamSecs \cup NumpyParamSecs \cup SphinxParamSecs}

Texts ==
  Compose(GoogleParamSecs, GSec("Args", GA), GoogleOtherSecs)
  \cup Compose(NumpyParamSecs, NSec("Parameters", NA), NumpyOtherSecs)
  \cup Compose(SphinxParamSecs, <<NL>> \o SA, SphinxOtherSecs)
  \cup MixedTexts

\* the existing docstring, its indentation in the buffer and the setting
\* "template_order"
Input(text, ind, template_order) ==
  [text |-> text, ind |-> ind, template_order |-> template_order]
Inputs ==
  {Input(t, 0, FALSE) : t \in Texts}
  \cup {Input(t, ind, FALSE) : t \in ParamTexts, ind \in 1..MaxIndent}
  \cup {Input(t, 0, TRUE) : t \in ParamTexts}

(***************************************************************************)
(* The state machine: one existing docstring, parsed, then updated,        *)
(* converted and formatted                                                 *)
(***************************************************************************)
\* the most update and conversion calls made on one Docstring object
MaxOps == 2

\* autodoc: s_default_description, the setting "default_description" when
\* snippets are off
s_default_description == "Description"

\* parse_function_params and its siblings: the Parameter objects made from
\* the declaration, tag their position, the description the default one
FreshParam(p, i) ==
  Parameter(<<p.name>>, p.type, <<W(0, DefaultDescription)>>, i - 1, FALSE,
            p.annotated, NoIndent)
Fresh(ps) == [i \in 1..Len(ps) |-> FreshParam(ps[i], i)]
\* paramtype: default_type, the annotation, the type of the default value,
\* or None (an exception)
Plain(name) == [name |-> name, type |-> DefaultType, annotated |-> FALSE]
Annotated(name) == [name |-> name, type |-> "${NUMBER:T}", annotated |-> TRUE]
Guessed(name) == [name |-> name, type |-> "${NUMBER:G}", annotated |-> FALSE]
Untyped(name) == [name |-> name, type |-> "", annotated |-> FALSE]

FreshParameters ==
  {Fresh(ps) : ps \in {<<>>, <<Plain("a")>>, <<Plain("a"), Plain("b")>>,
                       <<Plain("b"), Plain("a")>>,
                       <<Annotated("b"), Annotated("a")>>,
                       <<Guessed("a")>>}}
FreshAttributes == {Fresh(ps) : ps \in {<<>>, <<Plain("b"), Plain("a")>>}}
\* alpha_order has no effect on an empty list
Orders(attribs) == IF attribs = <<>> THEN {FALSE} ELSE BOOLEAN
FreshExceptions == {Fresh(ps) : ps \in {<<>>, <<Untyped("F"), Untyped("E")>>}}
ReturnTypes == {"", "T"}
Keywords == {"", "return", "yield"}
Builds == {"c", "py"}

(***************************************************************************)
(* The declaration: dparse.parse_funcdef, parse_function_params,           *)
(* parse_class_attributes and parse_module_attributes                      *)
(***************************************************************************)
\* Python source text is kept in pieces: a parameter of a header is its
\* marker ("", "*" or "**"), its name, the text of its annotation and the
\* text of its default value ("" for none)
Par(marker, name, annotation, default_value) ==
  [marker |-> marker, name |-> name, annotation |-> annotation,
   default_value |-> default_value]

\* r"${{NUMBER:{0}}}".format(s)
NUMBER(s) == "${NUMBER:" \o s \o "}"

\* s.strip() on the value texts of the declarations
strip(s) ==
  CASE s = " 0" -> "0"
    [] s = " 2" -> "2"
    [] s = " \"a\"" -> "\"a\""
    [] s = " None" -> "None"
    [] s = " foo()" -> "foo()"
    [] s = " \"" -> "\""
    [] s = " 1 " -> "1"
    [] s = " 1" -> "1"
    [] s = " \"=\"" -> "\"=\""
    [] s = " 1 == 1" -> "1 == 1"
    [] OTHER -> s

\* ast.literal_eval(s).__class__.__name__, "" when literal_eval raises
\* ValueError (a name, a call, a comparison) or SyntaxError (half a string)
literal_eval_class(s) ==
  CASE s \in {"0", "1", "2"} -> "int"
    [] s \in {"'s'", "\"a\"", "\"=\""} -> "str"
    [] s = "None" -> "NoneType"
    [] OTHER -> ""

\* the class name as literal_eval gives it
extract_type_nonetype(s) == literal_eval_class(s)

\* dparse._extract_type with default=None ("" here)
extract_type(s) ==
  IF literal_eval_class(s) = "NoneType" THEN "None"
  ELSE literal_eval_class(s)

\* dparse._trim_enclosing: quotes around an annotation are taken off
trim_enclosing(s) == IF s = "'T'" THEN "T" ELSE s

\* dparse.parse_funcdef, one tfpdef: the marker is looked for among
\* siblings[idx:idx - 2:-1][1:], which is empty for the tfpdef at index 1,
\* so the marker of a first parameter is not seen
tfpdef(s, k) ==
  [name |-> IF k > 1 THEN s[k].marker \o s[k].name ELSE s[k].name,
   default_value |-> s[k].default_value,
   default_type |-> IF s[k].default_value = "" THEN ""
                    ELSE extract_type(s[k].default_value),
   annotation |-> trim_enclosing(s[k].annotation),
   is_optional |-> s[k].default_value # "",
   is_vararg |-> k > 1 /\ s[k].marker = "*",
   is_kwarg |-> k > 1 /\ s[k].marker = "**"]

\* dparse.parse_funcdef: without parameters there is no typedargslist and
\* argslist.find raises AttributeError
parse_funcdef(s) ==
  IF s = <<>> THEN [err |-> "AttributeError", params |-> <<>>]
  ELSE [err |-> "", params |-> [k \in 1..Len(s) |-> tfpdef(s, k)]]

\* parse_function_params: paramtype of one parameter, "" for None
paramtype(param, default_type) ==
  IF param.annotation # "" THEN NUMBER(param.annotation)
  ELSE IF param.is_vararg \/ param.is_kwarg THEN ""
  ELSE IF param.default_type # "" THEN NUMBER(param.default_type)
  ELSE NUMBER(default_type)

\* the type without the optional tag
tagged_type_untagged(param, default_type, optional_tag) ==
  paramtype(param, default_type)

tagged_type(param, default_type, optional_tag) ==
  IF optional_tag # "" /\ param.is_optional
     /\ paramtype(param, default_type) # ""
  THEN paramtype(param, default_type) \o ", " \o optional_tag
  ELSE paramtype(param, default_type)

\* params[1:] when the first parameter is self or cls
WithoutSelf(params) ==
  IF params # <<>> /\ params[1].name \in {"self", "cls"} THEN Tail(params)
  ELSE params

params_dict(params, default_type, default_description, optional_tag) ==
  [i \in 1..Len(params) |->
     Parameter(<<params[i].name>>,
               tagged_type(params[i], default_type, optional_tag),
               <<W(0, NUMBER(default_description))>>, i - 1, FALSE,
               params[i].annotation # "", NoIndent)]

parse_function_params(s, default_type, default_description, optional_tag) ==
  IF parse_funcdef(s).err # ""
  THEN [err |-> parse_funcdef(s).err, params |-> <<>>]
  ELSE [err |-> "",
        params |-> params_dict(WithoutSelf(parse_funcdef(s).params),
                               default_type, default_description,
                               optional_tag)]

\* an assignment the attribute patterns match: "name = value" at the level
\* of the body or "self.name = value"; the line is kept split at its "="
\* signs, as line.split('=') gives it, and scope is the scope name of it
Assign(self, name, values, scope) ==
  [self |-> self, name |-> name, split |-> <<name>> \o values,
   scope |-> scope]

\* name.startswith('_')
Private(name) == name \in {"_p"}

\* get_attr_type
get_attr_type(value, default_type, existing_type) ==
  IF existing_type \notin {default_type, NUMBER(default_type)}
  THEN existing_type
  ELSE IF literal_eval_class(strip(value)) \in {"NoneType", ""}
  THEN default_type
  ELSE literal_eval_class(strip(value))

\* the position of name among the Parameter objects of attribs, 0 for none
AttrPos(attribs, name) ==
  IF \E i \in 1..Len(attribs) : attribs[i].names = <<name>>
  THEN CHOOSE i \in 1..Len(attribs) : attribs[i].names = <<name>>
  ELSE 0

\* the type with its snippet marker, unless it starts with one already
MarkedType(t) ==
  IF \E w \in {"TYPE", "int", "str"} : t = NUMBER(w) THEN t ELSE NUMBER(t)

\* one turn of the loop over all_attr_regions
AttrStep(attribs, a, default_type, default_description) ==
  IF Private(a.name) \/ a.scope \in {"string", "comment"} THEN attribs
  ELSE IF AttrPos(attribs, a.name) = 0
  THEN Append(attribs,
              Parameter(<<a.name>>,
                        MarkedType(get_attr_type(a.split[2], default_type,
                                                 default_type)),
                        <<W(0, NUMBER(default_description))>>, Len(attribs),
                        FALSE, FALSE, NoIndent))
  ELSE [attribs EXCEPT ![AttrPos(attribs, a.name)].types =
          MarkedType(get_attr_type(a.split[2], default_type, @))]

RECURSIVE AttrLoop(_, _, _, _)
AttrLoop(assigns, k, default_type, default_description) ==
  IF k = 0 THEN <<>>
  ELSE AttrStep(AttrLoop(assigns, k - 1, default_type, default_description),
                assigns[k], default_type, default_description)

parse_class_attributes(assigns, default_type, default_description) ==
  AttrLoop(assigns, Len(assigns), default_type, default_description)

\* the module pattern has no "self." alternative
parse_module_attributes(assigns, default_type, default_description) ==
  parse_class_attributes(SelectSeq(assigns, LAMBDA a : ~a.self),
                         default_type, default_description)

VARIABLES
  raw,          \* the text of the existing docstring
  top_indent,   \* the indentation of the docstring in the buffer
  template_order, \* the setting "template_order"
  build,        \* the interpreter: "c" Python 3, "py" Python 2 (PY3k)
  ds,           \* the Docstring object
  err,          \* the exception an operation raised, "" for none
  hist,         \* the Docstring before each operation made so far
  ops,          \* the operations made so far
  out,          \* the result of format
  view,         \* the buffer the document-all command works on
  python_file,  \* is_python_file(view)
  update_only,  \* the argument update_only of the command
  status,       \* "idle", "running", "done" or "raised"
  ndefs,        \* len(defs) when the loop of the command starts
  idx,          \* the loop index i of the command, counted from 1
  results,      \* what each call of autodoc did
  target,       \* the declaration a new docstring is made for
  settings,     \* the settings autodoc reads for it
  fresh         \* what the scan of the declaration gave

doc_vars == <<raw, top_indent, template_order, build, ds, err, hist, ops, out>>
batch_vars == <<view, python_file, update_only, status, ndefs, idx, results>>
decl_vars == <<target, settings, fresh>>
vars == <<doc_vars, batch_vars, decl_vars>>

\* no command is running
BatchIdle ==
  /\ view = <<>>
  /\ python_file = TRUE
  /\ update_only = FALSE
  /\ status = "idle"
  /\ ndefs = 0
  /\ idx = 0
  /\ results = <<>>

\* no declaration is being documented from its source
Declaration(typ, name, header, ret_ano, keyword, raises, body) ==
  [typ |-> typ, name |-> name, header |-> header, ret_ano |-> ret_ano,
   keyword |-> keyword, raises |-> raises, body |-> body]
NoTarget == Declaration("", "", <<>>, "", "", <<>>, <<>>)
\* the settings autodoc reads that are not fixed below to their defaults
Settings(optional_tag, style, sort) ==
  [optional_tag |-> optional_tag, style |-> style,
   sort_class_attributes |-> sort, sort_exceptions |-> sort,
   sort_module_attributes |-> sort]
DeclIdle ==
  /\ target = NoTarget
  /\ settings = Settings("optional", "google", TRUE)
  /\ fresh = <<>>

NoOut == [done |-> FALSE, err |-> "", text |-> <<>>]

Op(kind, params, alpha_order, ret_type, keyword, style) ==
  [kind |-> kind, params |-> params, alpha_order |-> alpha_order,
   ret_type |-> ret_type, keyword |-> keyword, style |-> style]

Init ==
  /\ \E inp \in Inputs, default \in Styles :
       /\ raw = indent_docstr(inp.text, inp.ind, 1)
       /\ top_indent = inp.ind
       /\ template_order = inp.template_order
       /\ ds = make_docstring_obj(raw, default, template_order)
  /\ build \in Builds
  /\ err = ""
  /\ hist = <<>>
  /\ ops = <<>>
  /\ out = NoOut
  /\ BatchIdle
  /\ DeclIdle

CanCall == err = "" /\ ~out.done /\ Len(ops) < MaxOps

Record(r, op) ==
  /\ ds' = r.ds
  /\ err' = r.err
  /\ hist' = Append(hist, ds)
  /\ ops' = Append(ops, op)
  /\ UNCHANGED <<raw, top_indent, template_order, build, out>>
  /\ UNCHANGED batch_vars
  /\ UNCHANGED decl_vars

UpdateParameters(params) ==
  /\ CanCall
  /\ Record(update_parameters(ds, params, build),
            Op("parameters", params, FALSE, "", "", ""))

UpdateAttributes(attribs, alpha_order) ==
  /\ CanCall
  /\ Record(update_attributes(ds, attribs, alpha_order, build),
            Op("attributes", attribs, alpha_order, "", "", ""))

UpdateExceptions(attribs, alpha_order) ==
  /\ CanCall
  /\ Record(update_exceptions(ds, attribs, alpha_order, build),
            Op("exceptions", attribs, alpha_order, "", "", ""))

UpdateReturnType(ret_type, keyword) ==
  /\ CanCall
  /\ Record([ds |-> update_return_type(ds, "", ret_type,
                                       s_default_description, keyword),
             err |-> ""],
            Op("return", <<>>, FALSE, ret_type, keyword, ""))

ConvertStyle(style) ==
  /\ CanCall
  /\ Record(Convert(ds, style, build), Op("convert", <<>>, FALSE, "", "", style))

Format ==
  /\ err = ""
  /\ ~out.done
  /\ out' = [done |-> TRUE,
             err |-> IF FormatRaises(ds) THEN "AttributeError" ELSE "",
             text |-> IF FormatRaises(ds) THEN <<>>
                      ELSE Docstring_format(ds, top_indent)]
  /\ UNCHANGED <<raw, top_indent, template_order, build, ds, err, hist, ops>>
  /\ UNCHANGED batch_vars
  /\ UNCHANGED decl_vars

Next ==
  \/ \E params \in FreshParameters : UpdateParameters(params)
  \/ \E attribs \in FreshAttributes : \E alpha_order \in Orders(attribs) :
       UpdateAttributes(attribs, alpha_order)
  \/ \E attribs \in FreshExceptions : \E alpha_order \in Orders(attribs) :
       UpdateExceptions(attribs, alpha_order)
  \/ \E ret_type \in ReturnTypes, keyword \in Keywords :
       UpdateReturnType(ret_type, keyword)
  \/ \E style \in Styles : ConvertStyle(style)
  \/ Format

Spec == Init /\ [][Next]_vars

(***************************************************************************)
(* The same state machine on docstrings that end in any number of          *)
(* newlines                                                                *)
(***************************************************************************)
\* the most newlines a docstring ends in
MaxTrailing == 2

\* text with its trailing newlines replaced by n newlines
RECURSIVE RStripNL(_)
RStripNL(text) ==
  IF text # <<>> /\ IsNL(text[Len(text)])
  THEN RStripNL(SubSeq(text, 1, Len(text) - 1))
  ELSE text
EndingIn(text, n) == RStripNL(text) \o Repeat(NL, n)

TrailTexts ==
  {<<>>, SummaryText,
   SummaryText \o GSec("Args", GA),
   SummaryText \o GSec("Note", Prose),
   SummaryText \o GSec("Note", Prose \o <<NL>>) \o GSec("Args", GA),
   SummaryText \o NSec("Parameters", NA),
   SummaryText \o NSec("Note", NProse),
   SummaryText \o <<NL>> \o SA,
   SummaryText \o <<NL, DIR("note", "some text"), NL>>}

TrailInit ==
  /\ \E text \in TrailTexts, n \in 0..MaxTrailing, ind \in 0..MaxIndent :
       /\ raw = indent_docstr(EndingIn(text, n), ind, 1)
       /\ top_indent = ind
  /\ template_order \in BOOLEAN
  /\ ds = make_docstring_obj(raw, "google", template_order)
  /\ build = "c"
  /\ err = ""
  /\ hist = <<>>
  /\ ops = <<>>
  /\ out = NoOut
  /\ BatchIdle
  /\ DeclIdle

TrailSpec == TrailInit /\ [][Next]_vars

(***************************************************************************)
(* The buffer of the document-all command.  The buffer is a sequence of    *)
(* lines and delimiters:                                                   *)
(*   "mod"  the start of the file, the module-level declaration           *)
(*          Region(0, 0), and the lines before the first header            *)
(*   "def"  the header of a function or class, id its name                 *)
(*   "q3"   a triple quote                                                 *)
(*   "doc"  the text between two triple quotes                             *)
(*   "s1"   a line that is one string in single quotes: "text"             *)
(*   "u1"   a line that opens a string in single quotes and never closes   *)
(*          it: "text                                                      *)
(*   "lit"  a line of code that holds a string in single quotes: x = "s"   *)
(*   "rem"  a line of text that ends in one quote: s"                      *)
(*   "code" a line of code without a quote                                 *)
(* c tells what a docstring holds: "old" the text it had, "stub" the       *)
(* <FRESHLY_INSERTED> mark, "new" the text autodoc wrote.  raises, of a    *)
(* header, tells that autodoc raises for this declaration once it has its  *)
(* docstring: the header does not match _func_decl_re, get_whole_block     *)
(* finds an unclosed literal, or an update, the conversion or format       *)
(* raises.                                                                 *)
(***************************************************************************)
\* the most functions and classes in a buffer
MaxDecls == 2

Ln(k, c) == [k |-> k, id |-> 0, raises |-> FALSE, c |-> c]
Decl(id, raises) == [k |-> "def", id |-> id, raises |-> raises, c |-> ""]

\* the kinds of line in which the pattern (?<!\\)" finds a quote
Quoted == {"s1", "u1", "lit", "rem", "q3"}

\* view.scope_name: the place p is inside a string literal in triple quotes
InString(buf, p) ==
  Cardinality({j \in 1..(p - 1) : buf[j].k = "q3"}) % 2 = 1

\* the places of the declarations, the module-level one among them
find_all_declarations(buf) ==
  SortedSeq({p \in 1..Len(buf) :
               buf[p].k \in {"mod", "def"} /\ ~InString(buf, p)})

\* the docstring of the declaration at p opens and no quote closes it: a
\* triple quote with no triple quote after it, or a single quote with none
\* on its line
Unterminated(buf, p) ==
  /\ p < Len(buf)
  /\ \/ buf[p + 1].k = "u1"
     \/ /\ buf[p + 1].k = "q3"
        /\ \A j \in (p + 2)..Len(buf) : buf[j].k # "q3"

NoRegion == [found |-> FALSE, a |-> 0, b |-> 0, qstyle |-> "", new |-> FALSE]
Region(a, b, qstyle, new) ==
  [found |-> TRUE, a |-> a, b |-> b, qstyle |-> qstyle, new |-> new]

\* view.find(pattern, start): the first place from start on whose kind is in
\* kinds, 0 (the region (-1, -1)) when there is none
find(buf, kinds, start) ==
  LET js == {j \in start..Len(buf) : buf[j].k \in kinds}
  IN IF js = {} THEN 0 ELSE Min(js)

\* get_docstring: the region of the docstring of the declaration at p and the
\* buffer as it leaves it; a and b are the places of the opening and of the
\* closing quote
get_docstring(buf, p, edit) ==
  LET nxt == IF p < Len(buf) THEN buf[p + 1].k ELSE "eof"
      end3 == find(buf, {"q3"}, p + 2)
      end1 == find(buf, Quoted, p + 2)
      stub == <<Ln("q3", ""), Ln("doc", "stub"), Ln("q3", "")>>
  IN CASE nxt = "q3" ->
            [buf |-> buf,
             reg |-> IF end3 = 0 THEN NoRegion
                     ELSE Region(p + 1, end3, "q3", FALSE)]
       [] nxt = "s1" ->
            [buf |-> buf, reg |-> Region(p + 1, p + 1, "q1", FALSE)]
       [] nxt = "u1" ->
            [buf |-> buf,
             reg |-> IF end1 = 0 THEN NoRegion
                     ELSE Region(p + 1, end1, "q1", FALSE)]
       [] OTHER ->
            IF ~edit THEN [buf |-> buf, reg |-> NoRegion]
            ELSE [buf |-> SubSeq(buf, 1, p) \o stub
                            \o SubSeq(buf, p + 1, Len(buf)),
                  reg |-> Region(p + 1, p + 3, "q3", TRUE)]

\* the line that holds the quote taken for the closing one of a docstring in
\* single quotes: what stands before that quote, and the line from it on
BeforeQuote(line) ==
  IF line.k \in {"lit", "rem"} THEN <<Ln("code", "")>> ELSE <<>>
FromQuote(line) ==
  CASE line.k = "lit" -> <<Ln("s1", "old")>>
    [] line.k = "rem" -> <<Ln("u1", "")>>
    [] OTHER -> <<line>>

\* view.replace(edit, old_ds_region, new_docstr): the new text goes between
\* the two quotes.  The lines a region in single quotes runs over were read
\* as the summary of the docstring and are written back before the new
\* sections
replace(buf, reg) ==
  IF reg.qstyle = "q3"
  THEN SubSeq(buf, 1, reg.a) \o <<Ln("doc", "new")>>
         \o SubSeq(buf, reg.b, Len(buf))
  ELSE IF reg.a = reg.b
  THEN [buf EXCEPT ![reg.a].c = "new"]
  ELSE SubSeq(buf, 1, reg.b - 1) \o BeforeQuote(buf[reg.b])
         \o <<Ln("doc", "new")>> \o FromQuote(buf[reg.b])
         \o SubSeq(buf, reg.b + 1, Len(buf))

\* autodoc that hands the edit object to get_docstring whatever update_only
\* is
autodoc_always_edits(buf, p, only) ==
  LET g == get_docstring(buf, p, TRUE)
  IN IF ~g.reg.found
     THEN [ret |-> IF only THEN "-1" ELSE "raise", buf |-> g.buf]
     ELSE IF buf[p].raises
     THEN [ret |-> "raise", buf |-> g.buf]
     ELSE [ret |-> "0", buf |-> replace(g.buf, g.reg)]

\* autodoc for the declaration at p: what it returns, "raise" for an
\* exception, and the buffer as it leaves it
autodoc(buf, p, only) ==
  LET g == get_docstring(buf, p, ~only)
  IN IF ~g.reg.found
     THEN [ret |-> IF only THEN "-1" ELSE "raise", buf |-> g.buf]
     ELSE IF buf[p].raises
     THEN [ret |-> "raise", buf |-> g.buf]
     ELSE [ret |-> "0", buf |-> replace(g.buf, g.reg)]

(***************************************************************************)
(* AutoDocstringAllCommand.run, one call of autodoc a step                 *)
(***************************************************************************)
\* the bodies a declaration can have: no docstring, a docstring in triple
\* or in single quotes, one that is never closed, one in single quotes that
\* is not closed on its line and is followed by a line holding a quote
Bodies ==
  {<<Ln("code", "")>>,
   <<Ln("q3", ""), Ln("doc", "old"), Ln("q3", ""), Ln("code", "")>>,
   <<Ln("s1", "old"), Ln("code", "")>>,
   <<Ln("q3", ""), Ln("doc", "old"), Ln("code", "")>>,
   <<Ln("u1", "old"), Ln("code", "")>>,
   <<Ln("u1", "old"), Ln("lit", "")>>}

ModuleHeads ==
  {<<Ln("mod", "")>>,
   <<Ln("mod", ""), Ln("q3", ""), Ln("doc", "old"), Ln("q3", "")>>}

RECURSIVE Buffers(_)
\* the texts of n declarations, numbered from 1
Buffers(n) ==
  IF n = 0 THEN ModuleHeads
  ELSE {b \o <<Decl(n, r)>> \o body :
          b \in Buffers(n - 1), r \in BOOLEAN, body \in Bodies}

BatchInit ==
  /\ \E n \in 1..MaxDecls : view \in Buffers(n)
  /\ python_file \in BOOLEAN
  /\ update_only \in BOOLEAN
  /\ status = "idle"
  /\ ndefs = 0
  /\ idx = 0
  /\ results = <<>>
  /\ raw = <<>>
  /\ top_indent = 0
  /\ template_order = FALSE
  /\ build = "c"
  /\ ds = Docstring("google", <<>>, 0)
  /\ err = ""
  /\ hist = <<>>
  /\ ops = <<>>
  /\ out = NoOut
  /\ DeclIdle

\* run, up to the loop: not a python file raises TypeError
Run ==
  /\ status = "idle"
  /\ IF python_file
     THEN /\ status' = "running"
          /\ ndefs' = Len(find_all_declarations(view))
          /\ idx' = 1
     ELSE /\ status' = "raised"
          /\ UNCHANGED <<ndefs, idx>>
  /\ UNCHANGED <<view, python_file, update_only, results>>
  /\ UNCHANGED doc_vars
  /\ UNCHANGED decl_vars

\* one turn of the loop: defs is found again, autodoc works on defs[i], and
\* an exception of autodoc leaves the loop (the handler raises it again)
Step ==
  /\ status = "running"
  /\ idx <= ndefs
  /\ LET defs == find_all_declarations(view)
         r == autodoc(view, defs[idx], update_only)
     IN /\ view' = r.buf
        /\ results' = Append(results,
                             [id |-> view[defs[idx]].id, pos |-> defs[idx],
                              ret |-> r.ret, before |-> view,
                              after |-> r.buf])
        /\ IF r.ret = "raise"
           THEN status' = "raised" /\ UNCHANGED idx
           ELSE idx' = idx + 1 /\ UNCHANGED status
  /\ UNCHANGED <<python_file, update_only, ndefs>>
  /\ UNCHANGED doc_vars
  /\ UNCHANGED decl_vars

\* the loop is over: the status message "AutoDoc'ed :-)"
Finish ==
  /\ status = "running"
  /\ idx > ndefs
  /\ status' = "done"
  /\ UNCHANGED <<view, python_file, update_only, ndefs, idx, results>>
  /\ UNCHANGED doc_vars
  /\ UNCHANGED decl_vars

BatchNext == Run \/ Step \/ Finish

BatchSpec == BatchInit /\ [][BatchNext]_vars

(***************************************************************************)
(* autodoc on one declaration that has no docstring yet                    *)
(***************************************************************************)
\* the settings left at their defaults
s_default_type == "TYPE"
s_default_summary == "Summary"
s_default_return_name == ""

\* parse_function_exceptions: one Parameter for each name raised, its tag
\* the number of the names before it
ExceptStep(excepts, e_name, default_description) ==
  IF AttrPos(excepts, e_name) # 0 THEN excepts
  ELSE Append(excepts,
              Parameter(<<e_name>>, "", <<W(0, NUMBER(default_description))>>,
                        Len(excepts), FALSE, FALSE, NoIndent))

RECURSIVE ExceptLoop(_, _, _)
ExceptLoop(raises, k, default_description) ==
  IF k = 0 THEN <<>>
  ELSE ExceptStep(ExceptLoop(raises, k - 1, default_description), raises[k],
                  default_description)

parse_function_exceptions(raises, default_description) ==
  ExceptLoop(raises, Len(raises), default_description)

\* ret_type of a new docstring: the return annotation or, unless the
\* function is __init__, the default type
RetType(t) ==
  IF trim_enclosing(t.ret_ano) # "" THEN trim_enclosing(t.ret_ano)
  ELSE IF t.name # "__init__" THEN s_default_type
  ELSE ""

\* the branch typ == "def"
DefParameters(d, p, b) ==
  IF p.err # "" THEN [ds |-> d, err |-> p.err]
  ELSE update_parameters(d, p.params, b)

DefReturn(r, t) ==
  IF r.err # "" THEN r
  ELSE [ds |-> update_return_type(r.ds, s_default_return_name, RetType(t),
                                  s_default_description, t.keyword),
        err |-> ""]

DefExceptions(r, t, s, b) ==
  IF r.err # "" THEN r
  ELSE update_exceptions(r.ds,
                         parse_function_exceptions(t.raises,
                                                   s_default_description),
                         s.sort_exceptions, b)

DocumentDef(d, p, t, s, b) ==
  DefExceptions(DefReturn(DefParameters(d, p, b), t), t, s, b)

\* the removal of the snippet markers from new_docstr: "${NUMBER:" and the
\* first "}" after it are taken out of the text
SnippetWords ==
  {"TYPE", "int", "str", "None", "T", "Description", "Summary"}
SnippetTails == {"", ", optional"}
unsnip(str) ==
  LET hits == {h \in SnippetWords \X SnippetTails :
                 str = NUMBER(h[1]) \o h[2]}
  IN IF hits = {} THEN str
     ELSE (CHOOSE h \in hits : TRUE)[1] \o (CHOOSE h \in hits : TRUE)[2]

RemoveMarkers(text) ==
  [i \in 1..Len(text) |->
     [text[i] EXCEPT !.n = unsnip(@), !.t = unsnip(@), !.d = unsnip(@)]]

\* the end of autodoc for a new docstring: the summary, desired_style(ds),
\* format and the removal of the markers
WithSummary(d) ==
  finalize_section(d, "Summary", <<W(0, NUMBER(s_default_summary))>>)

NewDocstr(c, ind) ==
  IF c.err # "" THEN [done |-> FALSE, err |-> c.err, text |-> <<>>]
  ELSE IF FormatRaises(c.ds)
  THEN [done |-> FALSE, err |-> "AttributeError", text |-> <<>>]
  ELSE [done |-> TRUE, err |-> "",
        text |-> RemoveMarkers(Docstring_format(c.ds, ind))]

\* what autodoc leaves: the Docstring as updated, the exception raised if
\* any, the text put into the buffer
Documented(r, freshly, new_docstr) ==
  /\ fresh' = freshly
  /\ ds' = r.ds
  /\ err' = IF r.err # "" THEN r.err ELSE new_docstr.err
  /\ out' = IF r.err # "" THEN NoOut ELSE [new_docstr EXCEPT !.err = ""]
  /\ UNCHANGED <<raw, top_indent, template_order, build, hist, ops>>
  /\ UNCHANGED <<target, settings>>
  /\ UNCHANGED batch_vars

Autodoc(r, freshly) ==
  \E new_docstr \in {NewDocstr(Convert(WithSummary(r.ds), settings.style,
                                       build), top_indent)} :
    Documented(r, freshly, new_docstr)

\* the headers of the functions
Headers ==
  {<<>>,
   <<Par("", "a", "", "")>>,
   <<Par("", "a", "", ""), Par("", "b", "", "1"), Par("", "c", "int", "2")>>,
   <<Par("", "a", "", "None")>>,
   <<Par("", "a", "", "SOME_CONSTANT")>>,
   <<Par("", "self", "", ""), Par("", "a", "'T'", ""),
     Par("", "b", "", "'s'")>>,
   <<Par("", "cls", "", ""), Par("", "b", "", ""), Par("", "a", "", "")>>,
   <<Par("*", "args", "", "")>>,
   <<Par("", "a", "int", ""), Par("*", "args", "", ""),
     Par("**", "kwargs", "", "")>>,
   <<Par("", "a", "", "1"), Par("**", "kwargs", "int", "")>>}

\* the assignments of a class or of a module, in the order of the text
AssignLists ==
  {<<>>,
   <<Assign(TRUE, "count", <<" 0">>, ""),
     Assign(TRUE, "name", <<" \"a\"">>, ""),
     Assign(TRUE, "x", <<" None">>, ""),
     Assign(TRUE, "y", <<" foo()">>, "")>>,
   <<Assign(TRUE, "b", <<" None">>, ""), Assign(FALSE, "a", <<" 1">>, ""),
     Assign(TRUE, "b", <<" 2">>, ""), Assign(FALSE, "a", <<" \"a\"">>, ""),
     Assign(TRUE, "b", <<" \"a\"">>, "")>>,
   <<Assign(FALSE, "count", <<" 0">>, ""),
     Assign(FALSE, "count", <<" None">>, ""),
     Assign(FALSE, "_p", <<" 0">>, ""),
     Assign(FALSE, "c", <<" 0">>, "comment"),
     Assign(TRUE, "s", <<" \"a\"">>, "string")>>,
   <<Assign(TRUE, "sep", <<" \"", "\"">>, "")>>,
   <<Assign(FALSE, "flag", <<" 1 ", "", " 1">>, ""),
     Assign(FALSE, "a", <<" foo()">>, "")>>}

Targets ==
  {Declaration("def", name, header, ret_ano, keyword, raises, <<>>) :
     name \in {"f", "__init__"}, header \in Headers, ret_ano \in {"", "'T'"},
     keyword \in {"", "return"}, raises \in {<<>>, <<"E", "F", "E">>}}
  \cup {Declaration(typ, "C", <<>>, "", "", <<>>, body) :
          typ \in {"class", "module"}, body \in AssignLists}

DeclInit ==
  /\ target \in Targets
  /\ settings \in {Settings(optional_tag, style, sort) :
                     optional_tag \in {"", "optional"}, style \in Styles,
                     sort \in BOOLEAN}
  /\ fresh = <<>>
  /\ raw = <<W(0, "<FRESHLY_INSERTED>")>>
  /\ top_indent = IF target.typ = "module" THEN 0 ELSE 1
  /\ template_order \in BOOLEAN
  /\ build = "c"
  /\ ds = make_docstring_obj(raw, settings.style, template_order)
  /\ err = ""
  /\ hist = <<>>
  /\ ops = <<>>
  /\ out = NoOut
  /\ BatchIdle

\* autodoc, the branch of a function
AutodocDef ==
  /\ target.typ = "def"
  /\ err = "" /\ ~out.done
  /\ \E p \in {parse_function_params(target.header, s_default_type,
                                     s_default_description,
                                     settings.optional_tag)} :
       \E r \in {DocumentDef(ds, p, target, settings, build)} :
         Autodoc(r, p.params)

\* autodoc, the branch of a class
AutodocClass ==
  /\ target.typ = "class"
  /\ err = "" /\ ~out.done
  /\ \E attribs \in {parse_class_attributes(target.body, s_default_type,
                                            s_default_description)} :
       \E r \in {update_attributes(ds, attribs,
                                   settings.sort_class_attributes, build)} :
         Autodoc(r, attribs)

\* autodoc, the branch of a module (_module_flag)
AutodocModule ==
  /\ target.typ = "module"
  /\ err = "" /\ ~out.done
  /\ \E attribs \in {parse_module_attributes(target.body, s_default_type,
                                             s_default_description)} :
       \E r \in {update_attributes(ds, attribs,
                                   settings.sort_module_attributes, build)} :
         Autodoc(r, attribs)

DeclNext == AutodocDef \/ AutodocClass \/ AutodocModule

DeclSpec == DeclInit /\ [][DeclNext]_vars

(***************************************************************************)
(* Properties of one docstring (specification Spec)                        *)
(***************************************************************************)
Merges == {"parameters", "attributes", "exceptions"}

\* the section an update operation fills, and the one it moves entries to
LiveName(kind) ==
  CASE kind = "parameters" -> "Parameters"
    [] kind = "attributes" -> "Attributes"
    [] OTHER -> "Raises"
ShadowName(kind) ==
  CASE kind = "parameters" -> "Deleted Parameters"
    [] kind = "attributes" -> "Deleted Attributes"
    [] OTHER -> "No Longer Raises"

\* the entries of a section, none when the section is absent
SecArgs(d, name) ==
  IF section_exists(d, name) /\ ~get_section(d, name).args_null
  THEN get_section(d, name).args
  ELSE EmptyArgs

\* the names a section documents, prose between the entries left out
Named(a) == {k \in Range(ArgsKeys(a)) : ~ArgsGet(a, k).descr_only}
NamedSeq(a) ==
  SelectSeqIdx(ArgsKeys(a), LAMBDA i : ~ArgsGet(a, ArgsKeys(a)[i]).descr_only)
FreshNames(params) == {params[i].names[1] : i \in 1..Len(params)}
FreshSeq(params) == [i \in 1..Len(params) |-> params[i].names[1]]

\* the operation op made on the Docstring d
ApplyOp(d, op) ==
  CASE op.kind = "parameters" -> update_parameters(d, op.params, build)
    [] op.kind = "attributes" ->
         update_attributes(d, op.params, op.alpha_order, build)
    [] op.kind = "exceptions" ->
         update_exceptions(d, op.params, op.alpha_order, build)
    [] op.kind = "return" ->
         [ds |-> update_return_type(d, "", op.ret_type,
                                    s_default_description, op.keyword),
          err |-> ""]
    [] OTHER -> Convert(d, op.style, build)

\* C1: no data loss.  After one merge of a fresh list into the parsed
\* docstring, every name the old live section documented and the fresh list
\* lacks is a name of an entry of the shadow section, and that entry has the
\* description the name had before.
NoDataLoss ==
  (Len(ops) = 1 /\ ops[1].kind \in Merges /\ err = "") =>
    LET old == SecArgs(hist[1], LiveName(ops[1].kind))
        shadow == SecArgs(ds, ShadowName(ops[1].kind))
    IN \A k \in Named(old) \ FreshNames(ops[1].params) :
         \E j \in 1..Len(shadow.objs) :
           /\ k \in Range(shadow.objs[j].names)
           /\ shadow.objs[j].description = ArgsGet(old, k).description

\* C2: merge idempotence.  When one merge has been made and formatted, to
\* parse that output, make the same merge and format again gives the same
\* output, without an error.
MergeIdempotent ==
  (/\ Len(ops) = 1 /\ ops[1].kind \in Merges \cup {"return"}
   /\ err = "" /\ ~FormatRaises(ds)) =>
     LET first == Docstring_format(ds, top_indent)
         again == ApplyOp(make_docstring_obj(first, ds.style, template_order),
                          ops[1])
     IN /\ again.err = ""
        /\ ~FormatRaises(again.ds)
        /\ Docstring_format(again.ds, top_indent) = first

\* C3: round trip.  A docstring that is parsed and formatted, with no
\* operation between, comes out as the text that went in.
RoundTrip ==
  (Len(ops) = 0 /\ out.done) => (out.err = "" /\ out.text = raw)

\* the fresh list of the one update_parameters call holds the names of the
\* Parameters section, in another order
Reordered ==
  /\ Len(ops) = 1 /\ ops[1].kind = "parameters"
  /\ LET old == SecArgs(hist[1], "Parameters")
     IN /\ Range(NamedSeq(old)) = FreshNames(ops[1].params)
        /\ Len(NamedSeq(old)) = Len(ops[1].params)
        /\ NamedSeq(old) # FreshSeq(ops[1].params)

\* C4: stability under reordering.  When the fresh list holds the names of
\* the Parameters section in another order, update_parameters raises
\* nothing, the names of the section come out in the order of the fresh
\* list, and every name keeps its description and its type.
StableUnderReordering ==
  Reordered =>
    LET old == SecArgs(hist[1], "Parameters")
        new == SecArgs(ds, "Parameters")
    IN /\ err = ""
       /\ NamedSeq(new) = FreshSeq(ops[1].params)
       /\ \A k \in Range(NamedSeq(old)) :
            /\ ArgsGet(new, k).description = ArgsGet(old, k).description
            /\ ArgsGet(new, k).types = ArgsGet(old, k).types

\* the entries of a section in order: key, names, type and description
Ent(p) == [names |-> p.names, types |-> p.types, description |-> p.description]
EntSeq(a) ==
  [i \in 1..Len(a.keys) |-> <<a.keys[i].key, Ent(a.objs[a.keys[i].obj])>>]
Structured(d) ==
  {i \in 1..Len(d.sections) :
     ~IsNone(d.sections[i].sec) /\ d.sections[i].sec.is_formatted}

\* C5: conversion round trip.  To convert a Google Docstring to Numpy raises
\* nothing, and when the parsed Google docstring has been converted to Numpy
\* and back to Google, every structured section it had is there with the
\* same entries in the same order.
ConversionRoundTrip ==
  /\ (/\ Len(ops) >= 1 /\ ops[Len(ops)].kind = "convert"
      /\ ops[Len(ops)].style = "numpy" /\ hist[Len(ops)].style = "google")
     => err = ""
  /\ (/\ Len(ops) = 2 /\ hist[1].style = "google"
      /\ ops[1].kind = "convert" /\ ops[1].style = "numpy"
      /\ ops[2].kind = "convert" /\ ops[2].style = "google")
     => /\ err = ""
        /\ \A i \in Structured(hist[1]) :
             LET nm == hist[1].sections[i].name
             IN /\ SecHas(ds.sections, nm)
                /\ ~IsNone(SecGet(ds.sections, nm))
                /\ SecGet(ds.sections, nm).is_formatted
                /\ ~SecGet(ds.sections, nm).args_null
                /\ EntSeq(SecGet(ds.sections, nm).args)
                     = EntSeq(hist[1].sections[i].sec.args)

\* the last operation is update_return_type with a keyword whose section is
\* absent while the section of the other keyword is present
IsMigration ==
  /\ Len(ops) >= 1 /\ ops[Len(ops)].kind = "return"
  /\ \/ /\ ops[Len(ops)].keyword = "yield"
        /\ section_exists(hist[Len(hist)], "Returns")
        /\ ~section_exists(hist[Len(hist)], "Yields")
     \/ /\ ops[Len(ops)].keyword = "return"
        /\ section_exists(hist[Len(hist)], "Yields")
        /\ ~section_exists(hist[Len(hist)], "Returns")
Target == IF ops[Len(ops)].keyword = "yield" THEN "Yields" ELSE "Returns"
Source == IF ops[Len(ops)].keyword = "yield" THEN "Returns" ELSE "Yields"

ShadowReturns ==
  {"No Longer Returns", "No Longer Returned",
   "No Longer Yields", "No Longer Yielded"}

\* C7: no return keyword.  When update_return_type is called with the empty
\* keyword and a Returns or Yields section is present, the content of that
\* section is afterwards in a "No Longer ..." section, and no Returns or
\* Yields section is present.
NoKeywordRelocatesToShadow ==
  \A name \in {"Returns", "Yields"} :
    (/\ Len(ops) >= 1 /\ ops[Len(ops)].kind = "return"
     /\ ops[Len(ops)].keyword = ""
     /\ section_exists(hist[Len(hist)], name)) =>
      LET old == get_section(hist[Len(hist)], name)
      IN /\ \E i \in 1..Len(ds.sections) :
              /\ ds.sections[i].name \in ShadowReturns
              /\ ~IsNone(ds.sections[i].sec)
              /\ ds.sections[i].sec.args = old.args
              /\ ds.sections[i].sec.text = old.text
         /\ ~section_exists(ds, "Returns")
         /\ ~section_exists(ds, "Yields")

\* the heading pattern of a style matches the dedented text of the docstring
Matches(style) == Docstring_detect_style(style, dedent_docstr(raw, 1))

\* C10 as the spec states it: detect_style gives the first style, in the
\* order Google, Numpy, Sphinx, whose pattern matches, and none exactly when
\* no pattern matches.
DetectPriorityGoogleFirst ==
  LET r == detect_style(raw)
      docstr == dedent_docstr(raw, 1)
      google == Docstring_detect_style("google", docstr)
      numpy == Docstring_detect_style("numpy", docstr)
      sphinx == Docstring_detect_style("sphinx", docstr)
  IN /\ r = "google" <=> google
     /\ r = "numpy" <=> (numpy /\ ~google)
     /\ r = "sphinx" <=> (sphinx /\ ~google /\ ~numpy)
     /\ r = "" <=> (~google /\ ~numpy /\ ~sphinx)

\* C10: detect_style gives the first style, in the order Numpy, Google,
\* Sphinx, whose pattern matches, and none exactly when no pattern matches.
DetectPriorityNumpyFirst ==
  LET r == detect_style(raw)
      docstr == dedent_docstr(raw, 1)
      google == Docstring_detect_style("google", docstr)
      numpy == Docstring_detect_style("numpy", docstr)
      sphinx == Docstring_detect_style("sphinx", docstr)
  IN /\ r = "numpy" <=> numpy
     /\ r = "google" <=> (google /\ ~numpy)
     /\ r = "sphinx" <=> (sphinx /\ ~google /\ ~numpy)
     /\ r = "" <=> (~google /\ ~numpy /\ ~sphinx)

\* a text in which the patterns of Google and of Numpy both match
DetectBothWitness ==
  /\ Matches("google")
  /\ Matches("numpy")
  /\ detect_style(raw) = "numpy"
  /\ ds.style = "numpy"

(***************************************************************************)
(* Properties of the document-all command (specification BatchSpec)        *)
(***************************************************************************)
\* C8: failure isolation.  When the command has ended after working on some
\* declaration, every declaration of the buffer has had its call of autodoc.
BatchFailureIsolated ==
  (status \in {"done", "raised"} /\ results # <<>>) =>
    \A p \in Range(find_all_declarations(view)) :
      \E j \in 1..Len(results) : results[j].id = view[p].id

\* C9: unterminated docstring.  A call of autodoc for a declaration whose
\* docstring has no closing quote leaves the buffer as it was and does not
\* return 0.
UnterminatedDocstringNoEdit ==
  \A j \in 1..Len(results) :
    Unterminated(results[j].before, results[j].pos) =>
      /\ results[j].after = results[j].before
      /\ results[j].ret # "0"

(***************************************************************************)
(* C11: scenario 1, def f(a, b=1, c: int = 2)                              *)
(***************************************************************************)
ScenarioOneHeader ==
  <<Par("", "a", "", ""), Par("", "b", "", "1"), Par("", "c", "int", "2")>>

\* autodoc has written the new docstring of the function of scenario 1, in
\* the Google style
ScenarioOne ==
  /\ target.typ = "def" /\ target.header = ScenarioOneHeader
  /\ settings.style = "google"
  /\ out.done

\* the lines of a Google section as autodoc writes them, markers removed
EntryLines(d, name) ==
  LET toks == RemoveMarkers(GoogleSection_param_formatter(get_section(d, name)))
      lines == SelectSeq(toks, LAMBDA tok : ~IsNL(tok))
  IN [i \in 1..Len(lines) |-> LineText(lines[i])]

AnnotatedNames(a) == {k \in Range(ArgsKeys(a)) : ArgsGet(a, k).annotated}

\* C11 as the spec states it: in scenario 1 the Parameters section holds
\* the entries 'a (TYPE): Description', 'b (int): Description' and
\* 'c (int): Description', in that order, and only c is flagged annotated.
ScenarioOneEntriesUntagged ==
  ScenarioOne =>
    /\ section_exists(ds, "Parameters")
    /\ EntryLines(ds, "Parameters")
         = <<"a (TYPE): Description", "b (int): Description",
             "c (int): Description">>
    /\ AnnotatedNames(SecArgs(ds, "Parameters")) = {"c"}

\* C11, amended: in scenario 1, with the settings at their defaults (Google
\* style, optional tag 'optional'), the Parameters section holds the entries
\* 'a (TYPE): Description', 'b (int, optional): Description' and
\* 'c (int, optional): Description', in that order, and only c is flagged
\* annotated; with an empty optional tag the entries of b and c are
\* 'b (int): Description' and 'c (int): Description'.
ScenarioOneEntries ==
  ScenarioOne =>
    /\ section_exists(ds, "Parameters")
    /\ EntryLines(ds, "Parameters")
         = IF settings.optional_tag = "optional"
           THEN <<"a (TYPE): Description", "b (int, optional): Description",
                  "c (int, optional): Description">>
           ELSE <<"a (TYPE): Description", "b (int): Description",
                  "c (int): Description">>
    /\ AnnotatedNames(SecArgs(ds, "Parameters")) = {"c"}
    /\ AnnotatedNames(SecArgs(ds, "Parameters"))
         = {fresh[i].names[1] : i \in {j \in 1..Len(fresh) : fresh[j].annotated}}

\* scenario 1 has been run with the default optional tag
ScenarioOneWitness ==
  /\ ScenarioOne
  /\ settings.optional_tag = "optional"
  /\ Len(fresh) = 3

(***************************************************************************)
(* C12: the type of a parameter that has a default value                   *)
(***************************************************************************)
\* the parameters of the header that parse_function_params keeps
Kept == WithoutSelf(target.header)

\* autodoc has scanned the header of the function
HeaderScanned ==
  target.typ = "def" /\ out.done /\ Len(fresh) = Len(Kept)

\* the parameters whose type comes from the default value: no annotation
\* and a default value
FromDefault ==
  {i \in 1..Len(Kept) :
     Kept[i].annotation = "" /\ Kept[i].default_value # ""}

\* what the optional tag adds to the type of a parameter with a default
OptionalTail ==
  IF settings.optional_tag = "" THEN "" ELSE ", " \o settings.optional_tag

\* C12 as the spec states it: a default value that is not a literal, or
\* that is None, gives the parameter the default type placeholder.
DefaultNoneGivesPlaceholder ==
  HeaderScanned =>
    \A i \in FromDefault :
      literal_eval_class(Kept[i].default_value) \in {"", "NoneType"}
        => fresh[i].types = NUMBER(s_default_type) \o OptionalTail

\* C12, amended: for a parameter without an annotation, a default value
\* that does not evaluate as a literal gives the default type placeholder,
\* a default value that evaluates to None gives the type name 'None', and
\* in both cases the optional tag, when one is configured, follows the type
\* name ('TYPE, optional' for a=SOME_CONSTANT, 'None, optional' for a=None).
DefaultNoneGivesNone ==
  HeaderScanned =>
    \A i \in FromDefault :
      /\ literal_eval_class(Kept[i].default_value) = ""
           => fresh[i].types = NUMBER(s_default_type) \o OptionalTail
      /\ literal_eval_class(Kept[i].default_value) = "NoneType"
           => fresh[i].types = NUMBER("None") \o OptionalTail

\* def f(a=None) has been scanned under the default optional tag
DefaultNoneWitness ==
  /\ HeaderScanned
  /\ target.header = <<Par("", "a", "", "None")>>
  /\ fresh[1].types = "${NUMBER:None}, optional"

(***************************************************************************)
(* C13: the types of the attributes of a class or of a module              *)
(***************************************************************************)
\* autodoc has scanned the assignments of the class or of the module
BodyScanned == target.typ \in {"class", "module"} /\ out.done

\* the assignments that name a public attribute of the target
Found ==
  SelectSeq(target.body,
            LAMBDA a : /\ ~Private(a.name)
                       /\ a.scope \notin {"string", "comment"}
                       /\ (target.typ = "module" => ~a.self))

\* the right-hand side of an assignment: the line after its first "="
RECURSIVE JoinEq(_, _)
JoinEq(split, k) ==
  IF k = 2 THEN split[2] ELSE JoinEq(split, k - 1) \o "=" \o split[k]
Rhs(a) == JoinEq(a.split, Len(a.split))

\* the type name of the literal on the right-hand side, the placeholder
\* when it is None or not a literal
RhsType(a) ==
  IF literal_eval_class(strip(Rhs(a))) \in {"", "NoneType"}
  THEN s_default_type
  ELSE literal_eval_class(strip(Rhs(a)))

\* the assignments to name, and among them the ones that give a type
AssignedAt(name) == {i \in 1..Len(Found) : Found[i].name = name}
TypedAt(name) == {i \in AssignedAt(name) : RhsType(Found[i]) # s_default_type}
FoundNames == {Found[i].name : i \in 1..Len(Found)}

\* C13: every public attribute the scan finds has one entry; its type is
\* the type name of the literal of the first assignment to it whose right-hand
\* side is a literal other than None, and the placeholder when there is no
\* such assignment; its tag is the number of names found before it.
AttributeTypeFromLiteral ==
  BodyScanned =>
    /\ {fresh[i].names[1] : i \in 1..Len(fresh)} = FoundNames
    /\ Len(fresh) = Cardinality(FoundNames)
    /\ \A i \in 1..Len(fresh) :
         /\ fresh[i].types
              = IF TypedAt(fresh[i].names[1]) = {} THEN NUMBER(s_default_type)
                ELSE NUMBER(RhsType(Found[Min(TypedAt(fresh[i].names[1]))]))
         /\ fresh[i].tag
              = Cardinality({Found[j].name :
                               j \in 1..(Min(AssignedAt(fresh[i].names[1])) - 1)})

(***************************************************************************)
(* C14: the newlines a formatted docstring ends in                         *)
(***************************************************************************)
\* format has returned a text
Formatted == out.done /\ out.err = ""

\* C14: the text format returns ends in as many newlines as the text that
\* was parsed, for every count, zero included.
TrailingNewlinesKept ==
  Formatted =>
    count_trailing_newlines(out.text) = count_trailing_newlines(raw)

(***************************************************************************)
(* C15: the content of a section                                           *)
(***************************************************************************)
\* C15: in every state of a Docstring each present section is structured
\* exactly when its canonical name has a parser in its own style, a
\* structured section has a parameter mapping that is not None and an
\* unstructured section has a raw text that is not None.
SectionContentInvariant ==
  err = "" =>
    \A i \in 1..Len(ds.sections) :
      LET sec == ds.sections[i].sec
      IN ~IsNone(sec) =>
           /\ sec.is_formatted = (sec.alias \in PARSERS(sec.cls))
           /\ sec.cls = ds.style
           /\ IF sec.is_formatted THEN ~sec.args_null ELSE ~sec.text_null

(***************************************************************************)
(* C16: an empty section is an absent section                              *)
(***************************************************************************)
\* the last operation was a merge and it returned
MergeReturned ==
  /\ Len(ops) >= 1 /\ ops[Len(ops)].kind \in Merges
  /\ err = ""

\* C16: after update_parameters, update_attributes or update_exceptions has
\* returned, the section it works on is absent (None or no key) or holds
\* at least one entry.
EmptyMeansAbsent ==
  MergeReturned =>
    \/ ~section_exists(ds, LiveName(ops[Len(ops)].kind))
    \/ /\ ~get_section(ds, LiveName(ops[Len(ops)].kind)).args_null
       /\ Len(ArgsKeys(get_section(ds, LiveName(ops[Len(ops)].kind)).args)) > 0

\* a merge with an empty fresh list has removed all entries of a section
\* that was present, and the section is absent now
EmptiedSectionWitness ==
  /\ MergeReturned
  /\ ops[Len(ops)].params = <<>>
  /\ section_exists(hist[Len(hist)], LiveName(ops[Len(ops)].kind))
  /\ ~section_exists(ds, LiveName(ops[Len(ops)].kind))

(***************************************************************************)
(* C17: the summary comes first                                            *)
(***************************************************************************)
\* the sections format has to emit after the summary: the present ones
\* other than the summary
Emittable(d) ==
  SelectSeq(d.sections,
            LAMBDA s : ~IsNone(s.sec) /\ s.name # "Summary")

\* C17: 'Summary' is the first key of the section mapping of every
\* Docstring, after parsing and after every operation that has returned;
\* format returns a text, made of the summary without a heading and then
\* of every other present section, once each and none left out.
SummaryFirst ==
  /\ err = "" =>
       /\ ds.sections # <<>>
       /\ ds.sections[1].name = "Summary"
  /\ out.done =>
       /\ out.err = ""
       /\ FormatLoopItems(ds) = Emittable(ds)


(***************************************************************************)
(* C18: who holds the section mapping                                      *)
(***************************************************************************)
\* the operations that constructed a Docstring from another one
ConvertedAt == {i \in 1..Len(ops) : ops[i].kind = "convert"}

\* the Docstring operation i converted, as that object is now:
\* "self.sections = docstr.sections" makes its attribute sections and the
\* one of the Docstring made from it the same mapping, and every operation
\* since then has worked on that mapping in place
SourceOf(i) == [hist[i] EXCEPT !.sections = ds.sections]

\* C18: the source and the result of a style conversion share no section
\* mapping and no Section: when the converted Docstring has been
\* constructed, the sections of the source Docstring are what they were
\* before the construction.
ExclusiveOwnership ==
  \A i \in ConvertedAt :
    i = Len(ops) => SourceOf(i).sections = hist[i].sections


(***************************************************************************)
(* C19: what a style conversion carries over                               *)
(***************************************************************************)
\* the entries of the section mapping of d that are not None
PresentSections(d) == SelectSeq(d.sections, LAMBDA s : ~IsNone(s.sec))

\* the keys of a section mapping, in order
SectionKeys(secs) == [k \in 1..Len(secs) |-> secs[k].name]

\* a parameter mapping without the 'indent' entries of meta, which the
\* conversion rewrites for Parameters, Returns and Yields
WithoutMetaIndent(a) ==
  [a EXCEPT !.objs = [k \in 1..Len(a.objs) |->
                        [a.objs[k] EXCEPT !.indent = NoIndent]]]

\* new holds the raw text of old, old being unstructured, or the
\* parameter mapping of old, old being structured
CarriedOver(old, new) ==
  IF old.is_formatted
  THEN /\ new.args_null = old.args_null
       /\ WithoutMetaIndent(new.args) = WithoutMetaIndent(old.args)
  ELSE /\ new.text_null = old.text_null
       /\ new.text = old.text

\* C19: a conversion to another style gives a Docstring without a None
\* entry whose sections are the present sections of the source, under the
\* same canonical names: each an instance of the Section class of the new
\* style that holds the raw text or the parameter mapping of the source's
\* section; the absent sections of the source are dropped, nothing else.
ConversionCarriesSections ==
  \A i \in ConvertedAt :
    (i = Len(ops) /\ ops[i].style # hist[i].style) =>
      /\ err = ""
      /\ ds.style = ops[i].style
      /\ PresentSections(ds) = ds.sections
      /\ SectionKeys(ds.sections) = SectionKeys(PresentSections(hist[i]))
      /\ \A k \in 1..Len(ds.sections) :
           /\ ds.sections[k].sec.cls = ops[i].style
           /\ CarriedOver(PresentSections(hist[i])[k].sec, ds.sections[k].sec)


(***************************************************************************)
(* C20: the type of an existing entry is refreshed from annotations only   *)
(***************************************************************************)
\* the section the last operation, a merge, worked on: as it was before
\* the merge and as it is now
LiveBefore == get_section(hist[Len(ops)], LiveName(ops[Len(ops)].kind))
LiveNow == get_section(ds, LiveName(ops[Len(ops)].kind))

\* the fresh entries of the last merge whose name is a key of the section
\* as it was before the merge
MatchedFresh ==
  IF /\ section_exists(hist[Len(ops)], LiveName(ops[Len(ops)].kind))
     /\ ~LiveBefore.args_null
  THEN {k \in 1..Len(ops[Len(ops)].params) :
          ArgsHas(LiveBefore.args, ops[Len(ops)].params[k].names[1])}
  ELSE {}

\* the entry of the fresh parameter p before the merge
EntryBefore(p) == LiveBefore.args.objs[ArgsObj(LiveBefore.args, p.names[1])]

\* the entries of the section now that name the fresh parameter p
EntriesNow(p) ==
  IF section_exists(ds, LiveName(ops[Len(ops)].kind)) /\ ~LiveNow.args_null
  THEN {LiveNow.args.objs[LiveNow.args.keys[j].obj] :
          j \in {j \in 1..Len(LiveNow.args.keys) :
                   \E x \in 1..Len(LiveNow.args.objs[LiveNow.args.keys[j].obj].names) :
                     LiveNow.args.objs[LiveNow.args.keys[j].obj].names[x]
                       = p.names[1]}}
  ELSE {}

\* the merged entry m of the fresh parameter p: the description and the
\* meta of the entry before, its type that of p if p is annotated and the
\* one of the entry before if not
Refreshed(p, m) ==
  /\ m.description = EntryBefore(p).description
  /\ m.indent = EntryBefore(p).indent
  /\ m.types = IF p.annotated THEN p.types ELSE EntryBefore(p).types

\* C20: when a fresh name matches an entry of the section, the merge gives
\* an entry for it that keeps the description and the meta of the existing
\* one, with the type text replaced by the fresh type if and only if the
\* fresh entry is annotated; a placeholder or a type taken from a default
\* value leaves the type text as it was.
TypeRefreshOnlyFromAnnotations ==
  (Len(ops) >= 1 /\ ops[Len(ops)].kind \in Merges) =>
    \A k \in MatchedFresh :
      /\ err = ""
      /\ EntriesNow(ops[Len(ops)].params[k]) # {}
      /\ \A m \in EntriesNow(ops[Len(ops)].params[k]) :
           Refreshed(ops[Len(ops)].params[k], m)


(***************************************************************************)
(* C21: entries that are no longer declared go to the shadow section       *)
(***************************************************************************)
\* the last operation is a merge of the Google or Numpy style that returned
NapoleonMergeReturned == MergeReturned /\ hist[Len(ops)].style # "sphinx"

\* the keys of the section before the merge that the matching leaves
\* there: named entries that the fresh list does not name
LeftoverKeys ==
  IF /\ section_exists(hist[Len(ops)], LiveName(ops[Len(ops)].kind))
     /\ ~LiveBefore.args_null
  THEN {j \in 1..Len(LiveBefore.args.keys) :
          /\ LiveBefore.args.keys[j].key # ""
          /\ ~LiveBefore.args.objs[LiveBefore.args.keys[j].obj].descr_only
          /\ LiveBefore.args.keys[j].key
               \notin FreshNames(ops[Len(ops)].params)}
  ELSE {}

\* the shadow section now
ShadowNow == get_section(ds, ShadowName(ops[Len(ops)].kind))

\* the entries of the shadow section now that list the name
ShadowEntries(name) ==
  IF section_exists(ds, ShadowName(ops[Len(ops)].kind)) /\ ~ShadowNow.args_null
  THEN {ShadowNow.args.keys[j].obj :
          j \in {j \in 1..Len(ShadowNow.args.keys) :
                   name \in Range(ShadowNow.args.objs[ShadowNow.args.keys[j].obj].names)}}
  ELSE {}

\* the leftover key j of the section has an entry of the shadow section
\* with the type text and the description it had
Relocated(j) ==
  \E m \in ShadowEntries(LiveBefore.args.keys[j].key) :
    /\ ShadowNow.args.objs[m].types
         = LiveBefore.args.objs[LiveBefore.args.keys[j].obj].types
    /\ ShadowNow.args.objs[m].description
         = LiveBefore.args.objs[LiveBefore.args.keys[j].obj].description

\* C21: after a merge of the Google or Numpy style, every named entry the
\* fresh list does not name is out of the live section and in the shadow
\* section with its type text and description; the key of the shadow
\* entry under its name holds the removed entry (an older shadow entry of
\* that name is overwritten), and the names of one block make one shadow
\* entry.
RelocatedToShadow ==
  NapoleonMergeReturned =>
    \A j \in LeftoverKeys :
      /\ EntriesNow([names |-> <<LiveBefore.args.keys[j].key>>]) = {}
      /\ Relocated(j)
      /\ \A i \in LeftoverKeys :
           LiveBefore.args.keys[i].obj = LiveBefore.args.keys[j].obj =>
             ShadowEntries(LiveBefore.args.keys[i].key)
               \cap ShadowEntries(LiveBefore.args.keys[j].key) # {}


(***************************************************************************)
(* C22: description-only entries stay in their section                     *)
(***************************************************************************)
\* the description-only entries of the section before the last merge
ProseBefore ==
  IF /\ section_exists(hist[Len(ops)], LiveName(ops[Len(ops)].kind))
     /\ ~LiveBefore.args_null
  THEN {LiveBefore.args.objs[LiveBefore.args.keys[j].obj] :
          j \in {j \in 1..Len(LiveBefore.args.keys) :
                   LiveBefore.args.objs[LiveBefore.args.keys[j].obj].descr_only}}
  ELSE {}

\* the descriptions of the entries a section of ds holds now
DescriptionsNow(name) ==
  IF section_exists(ds, name) /\ ~get_section(ds, name).args_null
  THEN {get_section(ds, name).args.objs[get_section(ds, name).args.keys[j].obj].description :
          j \in 1..Len(get_section(ds, name).args.keys)}
  ELSE {}

\* C22: a merge on a section that holds description-only entries returns
\* without an exception, whatever the fresh list is; each of these entries
\* is in the merged section with its text unchanged and none of them is in
\* the shadow section.
ProseKept ==
  (Len(ops) >= 1 /\ ops[Len(ops)].kind \in Merges) =>
    \A p \in ProseBefore :
      /\ err = ""
      /\ p.description \in DescriptionsNow(LiveName(ops[Len(ops)].kind))
      /\ p.description \notin DescriptionsNow(ShadowName(ops[Len(ops)].kind))


(***************************************************************************)
(* C23: two fresh names that match entries of one tag                      *)
(***************************************************************************)
\* the matched fresh entries of the last merge that come after a matched
\* fresh entry whose old entry carries the same tag
\* the place of the fresh entry k in the order the last merge goes
\* through the fresh list, which alpha_order sorts first
ProcessedAt(k) ==
  CHOOSE i \in 1..Len(ops[Len(ops)].params) :
    ops[Len(ops)].params[k]
      = (IF ops[Len(ops)].alpha_order
         THEN SortedParams(ops[Len(ops)].params)
         ELSE ops[Len(ops)].params)[i]

SecondClaimants ==
  {k \in MatchedFresh :
     \E f \in MatchedFresh :
       /\ ProcessedAt(f) < ProcessedAt(k)
       /\ EntryBefore(ops[Len(ops)].params[f]).tag
            = EntryBefore(ops[Len(ops)].params[k]).tag}

\* the first matched fresh entry whose old entry carries the tag of the
\* old entry of the fresh entry k
FirstClaimant(k) ==
  CHOOSE f \in MatchedFresh :
    /\ EntryBefore(ops[Len(ops)].params[f]).tag
         = EntryBefore(ops[Len(ops)].params[k]).tag
    /\ \A g \in MatchedFresh :
         EntryBefore(ops[Len(ops)].params[g]).tag
           = EntryBefore(ops[Len(ops)].params[k]).tag
         => ProcessedAt(f) <= ProcessedAt(g)

\* the keys of the section the last merge worked on, as it is now
KeysNow ==
  IF section_exists(ds, LiveName(ops[Len(ops)].kind)) /\ ~LiveNow.args_null
  THEN Range(ArgsKeys(LiveNow.args))
  ELSE {}

\* C23: when two fresh names match old entries of one tag, the merge
\* returns without an exception, annotated or not; the first name is a key
\* of the merged section and holds the old entry with its description,
\* and the second name is not a key of the merged section.
TagCollisionGuard ==
  (Len(ops) >= 1 /\ ops[Len(ops)].kind \in Merges) =>
    \A k \in SecondClaimants :
      /\ err = ""
      /\ ops[Len(ops)].params[k].names[1] \notin KeysNow
      /\ ops[Len(ops)].params[FirstClaimant(k)].names[1] \in KeysNow
      /\ EntryBefore(ops[Len(ops)].params[FirstClaimant(k)]).description
           \in DescriptionsNow(LiveName(ops[Len(ops)].kind))


(***************************************************************************)
(* The same state machine on docstrings that document a parameter in a     *)
(* sibling section of "Parameters"                                         *)
(***************************************************************************)
\* the headings of the sibling sections
SiblingHeadings ==
  {"Keyword Args", "Keyword Arguments", "Other Parameters", "Other Args",
   "Keyword Parameters"}

\* a summary, a section of parameters that documents a or none, and a
\* sibling section that documents b
SiblingTexts ==
  {SummaryText \o p \o GSec(h, GB) :
     p \in {<<>>, GSec("Args", GA)}, h \in SiblingHeadings}
  \cup {SummaryText \o p \o NSec(h, NB) :
          p \in {<<>>, NSec("Parameters", NA)}, h \in SiblingHeadings}

SiblingInit ==
  /\ \E text \in SiblingTexts :
       /\ raw = text
       /\ ds = make_docstring_obj(raw, "google", FALSE)
  /\ top_indent = 0
  /\ template_order = FALSE
  /\ build \in Builds
  /\ err = ""
  /\ hist = <<>>
  /\ ops = <<>>
  /\ out = NoOut
  /\ BatchIdle
  /\ DeclIdle

SiblingSpec == SiblingInit /\ [][Next]_vars

(***************************************************************************)
(* C24: a name that a sibling section documents                            *)
(***************************************************************************)
\* the sibling sections of "Parameters" that a Docstring holds, by their
\* canonical names
Siblings(d) ==
  {n \in {"Keyword Arguments", "Other Parameters"} : section_exists(d, n)}

\* the entry of the name in the section n of d
EntryOf(d, n, name) ==
  get_section(d, n).args.objs[ArgsObj(get_section(d, n).args, name)]

\* the fresh entries of update_parameters that are not in "Parameters" and
\* that the sibling section n documents
CoveredBy(n) ==
  {k \in 1..Len(ops[Len(ops)].params) :
     /\ k \notin MatchedFresh
     /\ ~get_section(hist[Len(ops)], n).args_null
     /\ ArgsHas(get_section(hist[Len(ops)], n).args,
                ops[Len(ops)].params[k].names[1])}

\* C24: update_parameters does not add to "Parameters" a fresh name that
\* is not there and that a present "Keyword Arguments" or "Other
\* Parameters" section documents; the type text of the entry of that
\* section is replaced by the fresh type when the fresh entry is annotated
\* and the entry is unchanged when it is not.
SiblingCoversName ==
  (/\ Len(ops) >= 1
   /\ ops[Len(ops)].kind = "parameters"
   /\ hist[Len(ops)].style # "sphinx") =>
    \A n \in Siblings(hist[Len(ops)]) : \A k \in CoveredBy(n) :
      /\ err = ""
      /\ ops[Len(ops)].params[k].names[1] \notin KeysNow
      /\ section_exists(ds, n)
      /\ ~get_section(ds, n).args_null
      /\ ArgsHas(get_section(ds, n).args, ops[Len(ops)].params[k].names[1])
      /\ EntryOf(ds, n, ops[Len(ops)].params[k].names[1])
           = [EntryOf(hist[Len(ops)], n, ops[Len(ops)].params[k].names[1])
                EXCEPT !.types = IF ops[Len(ops)].params[k].annotated
                                 THEN ops[Len(ops)].params[k].types
                                 ELSE @]


(***************************************************************************)
(* The same state machine on docstrings whose section of parameters has    *)
(* its heading in any letter case                                          *)
(***************************************************************************)
HeadingCases ==
  {"args", "Args", "ARGS", "parameters", "Parameters", "PARAMETERS"}

HeadingTexts ==
  {SummaryText \o GSec(h, GA) : h \in HeadingCases}
  \cup {SummaryText \o NSec(h, NA) : h \in HeadingCases}

HeadingInit ==
  /\ \E text \in HeadingTexts :
       /\ raw = text
       /\ ds = make_docstring_obj(raw, "google", FALSE)
  /\ top_indent = 0
  /\ template_order = FALSE
  /\ build \in Builds
  /\ err = ""
  /\ hist = <<>>
  /\ ops = <<>>
  /\ out = NoOut
  /\ BatchIdle
  /\ DeclIdle

HeadingSpec == HeadingInit /\ [][Next]_vars

(***************************************************************************)
(* C25: the letter case of a heading                                       *)
(***************************************************************************)
\* the Docstring as make_docstring_obj made it
Parsed == IF ops = <<>> THEN ds ELSE hist[1]

\* C25: in the Google and Numpy styles a heading 'args' or 'parameters' in
\* any letter case makes the canonical section 'Parameters': the section
\* is found by section_exists('Parameters') and is structured, and
\* update_parameters updates it, so that afterwards no two sections have
\* names that differ in letter case only.
HeadingCaseInsensitive ==
  /\ section_exists(Parsed, "Parameters")
  /\ get_section(Parsed, "Parameters").is_formatted
  /\ (Len(ops) = 1 /\ ops[1].kind = "parameters" /\ err = "") =>
       \A i, j \in 1..Len(ds.sections) :
         Title(ds.sections[i].name) = Title(ds.sections[j].name) => i = j


(***************************************************************************)
(* C26: the order in which the document-all command works                  *)
(***************************************************************************)
\* the calls of autodoc made so far took the declarations in ascending
\* place, no declaration twice, each at the place it has in the buffer as
\* the calls before it left it
InSourceOrder ==
  \A j \in 1..Len(results) :
    /\ results[j].pos = find_all_declarations(results[j].before)[j]
    /\ results[j].before[results[j].pos].id = results[j].id
    /\ j > 1 =>
         /\ results[j].before = results[j - 1].after
         /\ results[j].id > results[j - 1].id

\* C26: the command takes the declarations of the buffer one at a time in
\* ascending source position, at the place the declaration has after the
\* edits made for the declarations before it, and when the command has
\* ended every declaration has been taken exactly once.
BatchInOrder ==
  /\ InSourceOrder
  /\ (status \in {"done", "raised"} /\ python_file) =>
       /\ Len(results) = Len(find_all_declarations(view))
       /\ \A p \in 1..Len(results) :
            results[p].id = view[find_all_declarations(view)[p]].id


(***************************************************************************)
(* C27: the tags of the entries of a section                               *)
(***************************************************************************)
\* every operation made so far is a merge
OnlyMerges == \A i \in 1..Len(ops) : ops[i].kind \in Merges

\* the entries of the section the last merge worked on carry pairwise
\* different tags
DistinctTagsNow ==
  (section_exists(ds, LiveName(ops[Len(ops)].kind)) /\ ~LiveNow.args_null) =>
    \A i, j \in 1..Len(LiveNow.args.keys) :
      LiveNow.args.keys[i].obj # LiveNow.args.keys[j].obj =>
        LiveNow.args.objs[LiveNow.args.keys[i].obj].tag
          # LiveNow.args.objs[LiveNow.args.keys[j].obj].tag

\* C27: after any sequence of merges that returned, the entries of the
\* merged section carry pairwise different tags, and a merge with the
\* fresh list of the merge before it leaves every entry of the section in
\* the section.
TagsUnique ==
  (Len(ops) >= 1 /\ OnlyMerges /\ err = "") =>
    /\ DistinctTagsNow
    /\ (/\ Len(ops) >= 2
        /\ ops[Len(ops)] = ops[Len(ops) - 1]
        /\ section_exists(hist[Len(ops)], LiveName(ops[Len(ops)].kind))) =>
         \A j \in 1..Len(LiveBefore.args.keys) :
           LiveBefore.args.keys[j].key \in KeysNow


(***************************************************************************)
(* C28: update_return_type and the text of the section                     *)
(***************************************************************************)
\* the section update_return_type works on
ReturnTarget(keyword) == IF keyword = "yield" THEN "Yields" ELSE "Returns"

\* the descriptions of the entries of the section name of d, in order
DescriptionsOf(d, name) ==
  [j \in 1..Len(get_section(d, name).args.keys) |->
     get_section(d, name).args.objs[get_section(d, name).args.keys[j].obj].description]

\* the last operation is update_return_type with a return type, on a
\* Docstring whose target section held an entry
ReturnTypeGiven ==
  /\ Len(ops) >= 1
  /\ ops[Len(ops)].kind = "return"
  /\ ops[Len(ops)].ret_type # ""
  /\ section_exists(hist[Len(ops)], ReturnTarget(ops[Len(ops)].keyword))
  /\ ~get_section(hist[Len(ops)], ReturnTarget(ops[Len(ops)].keyword)).args_null
  /\ Len(get_section(hist[Len(ops)],
                     ReturnTarget(ops[Len(ops)].keyword)).args.keys) > 0

\* C28: update_return_type with a return type, on a section that holds an
\* entry, changes type information only: the section has the same keys
\* and every entry, a description-only first entry included, has the
\* description it had.
ReturnTypeKeepsProse ==
  ReturnTypeGiven =>
    /\ section_exists(ds, ReturnTarget(ops[Len(ops)].keyword))
    /\ ~get_section(ds, ReturnTarget(ops[Len(ops)].keyword)).args_null
    /\ ArgsKeys(get_section(ds, ReturnTarget(ops[Len(ops)].keyword)).args)
         = ArgsKeys(get_section(hist[Len(ops)],
                                ReturnTarget(ops[Len(ops)].keyword)).args)
    /\ DescriptionsOf(ds, ReturnTarget(ops[Len(ops)].keyword))
         = DescriptionsOf(hist[Len(ops)], ReturnTarget(ops[Len(ops)].keyword))


(***************************************************************************)
(* C29: update_only and declarations without a docstring                   *)
(***************************************************************************)
\* the declaration at p has no docstring: no quote opens its body
Undocumented(buf, p) ==
  \/ p = Len(buf)
  \/ buf[p + 1].k \notin {"q3", "s1", "u1"}

\* C29: with update_only set, the call of autodoc for a declaration
\* without a docstring returns -1 and leaves the buffer as it was, and it
\* does not end the batch: the command goes on to the next declaration,
\* and a declaration with a docstring whose call returns has the new
\* docstring in the buffer.
UpdateOnlySkipsUndocumented ==
  update_only =>
    \A j \in 1..Len(results) :
      /\ Undocumented(results[j].before, results[j].pos) =>
           /\ results[j].ret = "-1"
           /\ results[j].after = results[j].before
      /\ results[j].ret = "-1" =>
           /\ j = Len(results) => (status # "raised" /\ view = results[j].after)
           /\ j = Len(results) => (idx = j + 1)
      /\ results[j].ret = "0" =>
           /\ ~Undocumented(results[j].before, results[j].pos)
           /\ results[j].after # results[j].before

\* a batch with update_only in which a declaration without a docstring was
\* skipped and a declaration with a docstring was updated after it
SkippedThenUpdated ==
  /\ update_only
  /\ \E i, j \in 1..Len(results) :
       /\ i < j
       /\ Undocumented(results[i].before, results[i].pos)
       /\ results[i].ret = "-1"
       /\ results[i].after = results[i].before
       /\ results[j].ret = "0"
       /\ results[j].after # results[j].before


(***************************************************************************)
(* C30: a function without parameters                                      *)
(***************************************************************************)
\* a line of the text is the heading of a Parameters section, or a Sphinx
\* field of a parameter
ParametersHeading(text) ==
  \E i \in 1..Len(text) :
    \/ text[i].k \in {"w", "wc"}
       /\ text[i].d \in {"Args", "Arguments", "Parameters"}
    \/ text[i].k = "f" /\ text[i].t \in {"param", "type"}

\* C30: function with no parameters.  When autodoc has run on a function
\* whose header has an empty parameter list, nothing was raised, the list of
\* parameters parsed from the header is empty, the Docstring has no
\* Parameters section and the text written has no Parameters heading.
NoParametersFunction ==
  (/\ target.typ = "def" /\ target.header = <<>>
   /\ (err # "" \/ out.done)) =>
     /\ err = ""
     /\ fresh = <<>>
     /\ ~section_exists(ds, "Parameters")
     /\ ~ParametersHeading(out.text)

=============================================================================
